---- MODULE Spec2Model ----
(***************************************************************************)
(* Concurrency gate (RateLimiter, InFlightTracker) of the AI visibility    *)
(* tracker and the two services that call external providers:             *)
(* AnalysisService.RunAnalysis and CompareService.RunComparison.           *)
(*                                                                         *)
(* Time is a discrete clock `now`.  One tick stands for a third of         *)
(* time.Minute.  RateLimiter and InFlightTracker take their intervals as   *)
(* constructor arguments; the model instantiates them with small values.   *)
(* time.Sleep calls shorter than one tick are steps around which the clock *)
(* may or may not advance.                                                 *)
(***************************************************************************)
EXTENDS Integers, Sequences, FiniteSets, TLC

\* ---- bounds of the model ----
\* number of calls (HTTP requests, scheduler runs) made, each by its own caller
NProcs == 2
NBrands == 2
NPrompts == 2
NModelIDs == 2
NCmpPrompts == 1
\* cap of callsThisMin when RecordCall is called without CanProceed
MaxCounter == 3
\* the run the calculator reads: responses, mentions per response, ranks
MaxResponses == 2
MaxMentions == 2
MaxRank == 3
\* snapshots stored before the calculation
MaxHistory == 8
MaxTime == 3
\* constructor arguments of NewRateLimiter / NewInFlightTracker, in ticks
MinInterval == 1
MaxCallsPerMin == 2
\* the longest minInterval a rate limiter on its own is constructed with
MaxMinInterval == 2
\* a run on its own: the most prompts the repository returns, and the higher
\* of the two call ceilings its limiter is constructed with
MaxRunPrompts == 7
MaxRunCalls == 7
\* one comparison on its own: a Query fails only while the call has fewer
\* failed results than this
MaxRunFailures == 2
\* the loop of findEntityMentions on its own: an iteration that appends a
\* mention is taken while fewer than this many have been appended
MaxScanMentions == 4
Timeout == 3

\* ---- program constants ----
\* time.Minute, in ticks
Minute == 3
\* maxPrompts := 6
maxPrompts == 6
\* score weights and position weights, in hundredths
WeightMentionRate == 40
WeightPosition == 25
WeightRecommend == 20
WeightSentiment == 15
PositionFirst == 100
PositionSecond == 70
PositionLater == 40
\* GetTrendsByBrandID(brandID, 7)
TrendLimit == 7
\* len(trends) < 3
MinTrends == 3
\* confidence >= 0.8 is high, confidence < 0.5 is low, in hundredths
HighConfidence == 80
LowConfidence == 50

Procs == 1..NProcs
Brands == 1..NBrands
\* brand identifiers are interchangeable: the first caller's brand is brand 1
BrandsOf(p) == IF p = 1 THEN {1} ELSE Brands
\* the caller of the specifications that follow one call on its own
Runner == 1
Models == {"groq", "openrouter"}

Min(a, b) == IF a < b THEN a ELSE b

\* the zero time.Time of an unset lastCall: further in the past than any interval
ZeroTime == 0 - (MinInterval + Minute + Timeout)

(***************************************************************************)
(* RateLimiter: r is [lastCall, callsThisMin, minuteStart, minInterval,    *)
(* maxCallsPerMin]                                                         *)
(***************************************************************************)
NewRateLimiter(minInterval, maxCallsPerMin, t) ==
    [lastCall |-> ZeroTime, callsThisMin |-> 0, minuteStart |-> t,
     minInterval |-> minInterval, maxCallsPerMin |-> maxCallsPerMin]

\* CanProceed restarting the minute window on every call
CanProceedState_AlwaysReset(r, t) ==
    [r EXCEPT !.callsThisMin = 0, !.minuteStart = t]

\* the limiter state CanProceed leaves behind: it resets the minute counter
CanProceedState(r, t) ==
    IF t - r.minuteStart >= Minute
    THEN [r EXCEPT !.callsThisMin = 0, !.minuteStart = t]
    ELSE r

\* the value CanProceed returns
CanProceed(r, t) ==
    LET s == CanProceedState(r, t)
    IN  IF s.callsThisMin >= s.maxCallsPerMin THEN FALSE
        ELSE IF t - s.lastCall < s.minInterval THEN FALSE
        ELSE TRUE

RecordCall(r, t) ==
    IF t - r.minuteStart >= Minute
    THEN [r EXCEPT !.lastCall = t, !.callsThisMin = 1, !.minuteStart = t]
    ELSE [r EXCEPT !.lastCall = t, !.callsThisMin = r.callsThisMin + 1]

TimeUntilNextAllowed(r, t) ==
    IF r.callsThisMin >= r.maxCallsPerMin THEN r.minuteStart + Minute - t
    ELSE IF t < r.lastCall + r.minInterval THEN r.lastCall + r.minInterval - t
    ELSE 0

\* the can_proceed entry of GetStatus
GetStatus(r, t) ==
    r.callsThisMin < r.maxCallsPerMin /\ t - r.lastCall >= r.minInterval

(***************************************************************************)
(* InFlightTracker: m is the map brandID -> start time                     *)
(***************************************************************************)
NewInFlightTracker == << >>

\* TryAcquire with the staleness comparison inverted
TryAcquireOk_Inverted(m, b, t) ==
    IF b \in DOMAIN m /\ t - m[b] >= Timeout THEN FALSE ELSE TRUE

\* TryAcquire treating an entry of age Timeout as still fresh
TryAcquireOk_OffByOne(m, b, t) ==
    IF b \in DOMAIN m /\ t - m[b] <= Timeout THEN FALSE ELSE TRUE

\* the value TryAcquire returns
TryAcquireOk(m, b, t) ==
    IF b \in DOMAIN m /\ t - m[b] < Timeout THEN FALSE ELSE TRUE

\* the map TryAcquire leaves behind
TryAcquire(m, b, t) ==
    IF TryAcquireOk(m, b, t)
    THEN [x \in DOMAIN m \cup {b} |-> IF x = b THEN t ELSE m[x]]
    ELSE m

Release(m, b) == [x \in DOMAIN m \ {b} |-> m[x]]

IsInFlight(m, b, t) ==
    IF b \in DOMAIN m THEN t - m[b] < Timeout ELSE FALSE

(***************************************************************************)
(* Persistence: stored responses are <<run, index>> pairs per brand        *)
(***************************************************************************)
DeleteByBrandID(resp, b) == [resp EXCEPT ![b] = {}]

Create(resp, b, id) == [resp EXCEPT ![b] = @ \cup {id}]

(***************************************************************************)
(* Arithmetic.  The float64 values of the calculator are held as exact     *)
(* fractions <<numerator, denominator>> in lowest terms, denominator > 0.   *)
(***************************************************************************)
RECURSIVE GCD(_, _)
GCD(a, b) == IF b = 0 THEN a ELSE GCD(b, a % b)

Abs(a) == IF a < 0 THEN 0 - a ELSE a

Rat(n, d) ==
    LET c == GCD(Abs(n), d) IN <<n \div c, d \div c>>

RAdd(x, y) == Rat(x[1] * y[2] + y[1] * x[2], x[2] * y[2])
RSub(x, y) == Rat(x[1] * y[2] - y[1] * x[2], x[2] * y[2])
RMul(x, y) == Rat(x[1] * y[1], x[2] * y[2])
\* x / y for y > 0
RDiv(x, y) == Rat(x[1] * y[2], x[2] * y[1])
RLess(x, y) == x[1] * y[2] < y[1] * x[2]
RZero == Rat(0, 1)
ROne == Rat(1, 1)
Hundredths(w) == Rat(w, 100)

(***************************************************************************)
(* MetricsCalculator.  A response of the run is [err, mentions]: err when  *)
(* GetByResponseID failed; a mention is [EntityType, Sentiment,            *)
(* PositionRank, IsRecommendation].                                        *)
(***************************************************************************)
\* sentimentValue: 1=negative, 3=neutral, 5=positive
SentimentValue(m) ==
    CASE m.Sentiment = "positive" -> 5
      [] m.Sentiment = "negative" -> 1
      [] OTHER -> 3

\* the position weight with every rank after the first weighted alike
PositionWeight_Flat(rank) ==
    CASE rank = 1 -> PositionFirst
      [] OTHER -> PositionLater

\* switch mention.PositionRank, in hundredths
PositionWeight(rank) ==
    CASE rank = 1 -> PositionFirst
      [] rank = 2 -> PositionSecond
      [] OTHER -> PositionLater

\* the counters before the first response
ZeroCounters ==
    [totalMentions |-> 0, brandMentions |-> 0, positiveCount |-> 0,
     neutralCount |-> 0, negativeCount |-> 0, responsesWithBrand |-> 0,
     responsesWithRecommendation |-> 0, totalPositionScore |-> 0,
     brandSentimentSum |-> 0, categorySentimentSum |-> 0,
     categoryMentionCount |-> 0, hasBrand |-> FALSE, hasRecommendation |-> FALSE]

\* the body of the loop over the mentions of one response
AddMention(c, m) ==
    IF m.EntityType = "brand"
    THEN [c EXCEPT
            !.totalMentions = @ + 1,
            !.brandMentions = @ + 1,
            !.hasBrand = TRUE,
            !.positiveCount = @ + (IF m.Sentiment = "positive" THEN 1 ELSE 0),
            !.negativeCount = @ + (IF m.Sentiment = "negative" THEN 1 ELSE 0),
            !.neutralCount = @ + (IF m.Sentiment \in {"positive", "negative"} THEN 0 ELSE 1),
            !.totalPositionScore = @ + PositionWeight(m.PositionRank),
            !.hasRecommendation = @ \/ m.IsRecommendation,
            !.brandSentimentSum = @ + SentimentValue(m)]
    ELSE [c EXCEPT
            !.totalMentions = @ + 1,
            !.categorySentimentSum = @ + SentimentValue(m),
            !.categoryMentionCount = @ + 1]

RECURSIVE AddMentions(_, _)
AddMentions(c, ms) ==
    IF ms = << >> THEN c ELSE AddMentions(AddMention(c, Head(ms)), Tail(ms))

\* the body of the loop over the responses
AddResponse(c, r) ==
    IF r.err THEN c
    ELSE LET d == AddMentions([c EXCEPT !.hasBrand = FALSE,
                                        !.hasRecommendation = FALSE], r.mentions)
         IN  [d EXCEPT
                !.responsesWithBrand = @ + (IF d.hasBrand THEN 1 ELSE 0),
                !.responsesWithRecommendation =
                    @ + (IF d.hasRecommendation THEN 1 ELSE 0)]

RECURSIVE Aggregate(_, _)
Aggregate(c, rs) ==
    IF rs = << >> THEN c ELSE Aggregate(AddResponse(c, Head(rs)), Tail(rs))

\* clamp to [0, 1]
Clamp01(x) == IF RLess(x, RZero) THEN RZero ELSE IF RLess(ROne, x) THEN ROne ELSE x

\* ORDER BY snapshot_date DESC LIMIT days, over the scores stored oldest first
GetTrendsByBrandID(h, days) ==
    [i \in 1..Min(days, Len(h)) |-> h[Len(h) + 1 - i]]

RECURSIVE SumScores(_)
SumScores(t) == IF t = << >> THEN RZero ELSE RAdd(Head(t), SumScores(Tail(t)))

RECURSIVE VarianceSum(_, _)
VarianceSum(t, mean) ==
    IF t = << >> THEN RZero
    ELSE LET diff == RSub(Head(t), mean)
         IN  RAdd(RMul(diff, diff), VarianceSum(Tail(t), mean))

\* (1 - c) * (1 - c) for a confidence c given in hundredths
GapSq(c) == RMul(RSub(ROne, Hundredths(c)), RSub(ROne, Hundredths(c)))

\* calculateConfidenceScore with one snapshot more required
calculateConfidenceScore_MinFour(t) ==
    IF Len(t) < MinTrends + 1
    THEN [gapSq |-> Rat(1, 4), level |-> "medium"]
    ELSE LET n == Rat(Len(t), 1)
             mean == RDiv(SumScores(t), n)
         IN  IF mean = RZero
             THEN [gapSq |-> ROne, level |-> "low"]
             ELSE LET variance == RDiv(VarianceSum(t, mean), n)
                      cv2 == RDiv(variance, RMul(mean, mean))
                  IN  [gapSq |-> IF RLess(ROne, cv2) THEN ROne ELSE cv2,
                       level |-> IF ~RLess(GapSq(HighConfidence), cv2) THEN "high"
                                 ELSE IF RLess(GapSq(LowConfidence), cv2) THEN "low"
                                 ELSE "medium"]

\* calculateConfidenceScore over the trends t it read.  stdDev is a square
\* root, so the confidence c is held as gapSq = (1 - c)^2, stdDev^2 / mean^2
\* before the clamp: c = 0.5 is 1/4, c = 0 is 1, c >= 0.8 is gapSq <= 1/25.
calculateConfidenceScore(t) ==
    IF Len(t) < MinTrends
    THEN [gapSq |-> Rat(1, 4), level |-> "medium"]
    ELSE LET n == Rat(Len(t), 1)
             mean == RDiv(SumScores(t), n)
         IN  IF mean = RZero
             THEN [gapSq |-> ROne, level |-> "low"]
             ELSE LET variance == RDiv(VarianceSum(t, mean), n)
                      cv2 == RDiv(variance, RMul(mean, mean))
                  IN  [gapSq |-> IF RLess(ROne, cv2) THEN ROne ELSE cv2,
                       level |-> IF ~RLess(GapSq(HighConfidence), cv2) THEN "high"
                                 ELSE IF RLess(GapSq(LowConfidence), cv2) THEN "low"
                                 ELSE "medium"]

\* createEmptySnapshot reporting the neutral confidence
createEmptySnapshot_Medium ==
    [VisibilityScore |-> RZero, CitationShare |-> RZero, MentionCount |-> 0,
     PositiveCount |-> 0, NeutralCount |-> 0, NegativeCount |-> 0,
     NormalizedMentionRate |-> RZero, WeightedPositionScore |-> RZero,
     RecommendationRate |-> RZero, RelativeSentimentIndex |-> RZero,
     ConfidenceGapSq |-> Rat(1, 4), ConfidenceLevel |-> "medium",
     ResponseCount |-> 0, CategoryAvgSentiment |-> RZero]

\* createEmptySnapshot: the fields it does not set are zero
createEmptySnapshot ==
    [VisibilityScore |-> RZero, CitationShare |-> RZero, MentionCount |-> 0,
     PositiveCount |-> 0, NeutralCount |-> 0, NegativeCount |-> 0,
     NormalizedMentionRate |-> RZero, WeightedPositionScore |-> RZero,
     RecommendationRate |-> RZero, RelativeSentimentIndex |-> RZero,
     ConfidenceGapSq |-> ROne, ConfidenceLevel |-> "low",
     ResponseCount |-> 0, CategoryAvgSentiment |-> RZero]

\* the weighted position score without its clamp
weightedPositionScore_Unclamped(c, n) ==
    RDiv(Hundredths(c.totalPositionScore), Rat(n, 1))

\* 2. Weighted Position Score, for totalResponses = n > 0
weightedPositionScore(c, n) ==
    LET w == RDiv(Hundredths(c.totalPositionScore), Rat(n, 1))
    IN  IF RLess(ROne, w) THEN ROne ELSE w

\* Default neutral
DefaultSentiment == 3

\* the category average, 3.0 without competitor mentions
categoryAvgSentiment(c) ==
    IF c.categoryMentionCount > 0
    THEN Rat(c.categorySentimentSum, c.categoryMentionCount)
    ELSE Rat(DefaultSentiment, 1)

\* the relative sentiment index with the category average left out
relativeSentimentIndex_BrandOnly(c) ==
    LET brandAvgSentiment == IF c.brandMentions > 0
                             THEN Rat(c.brandSentimentSum, c.brandMentions)
                             ELSE Rat(DefaultSentiment, 1)
        relativeDiff == RSub(brandAvgSentiment, Rat(DefaultSentiment, 1))
    IN  Clamp01(RDiv(RAdd(relativeDiff, Rat(4, 1)), Rat(8, 1)))

\* 4. Relative Sentiment Index
relativeSentimentIndex(c) ==
    LET brandAvgSentiment == IF c.brandMentions > 0
                             THEN Rat(c.brandSentimentSum, c.brandMentions)
                             ELSE Rat(DefaultSentiment, 1)
        relativeDiff == RSub(brandAvgSentiment, categoryAvgSentiment(c))
    IN  Clamp01(RDiv(RAdd(relativeDiff, Rat(4, 1)), Rat(8, 1)))

\* the snapshot CalculateAndStoreMetrics builds from the responses rs of the
\* latest run and the trends t that calculateConfidenceScore read
MetricSnapshot(rs, t) ==
    IF Len(rs) = 0 THEN createEmptySnapshot
    ELSE LET c == Aggregate(ZeroCounters, rs)
             n == Len(rs)
             normalizedMentionRate == Rat(c.responsesWithBrand, n)
             recommendationRate == Rat(c.responsesWithRecommendation, n)
             wps == weightedPositionScore(c, n)
             rsi == relativeSentimentIndex(c)
             conf == calculateConfidenceScore(t)
         IN  [VisibilityScore |->
                 RMul(RAdd(RAdd(RMul(Hundredths(WeightMentionRate), normalizedMentionRate),
                                RMul(Hundredths(WeightPosition), wps)),
                           RAdd(RMul(Hundredths(WeightRecommend), recommendationRate),
                                RMul(Hundredths(WeightSentiment), rsi))),
                      Rat(100, 1)),
              CitationShare |-> RMul(normalizedMentionRate, Rat(100, 1)),
              MentionCount |-> c.brandMentions,
              PositiveCount |-> c.positiveCount,
              NeutralCount |-> c.neutralCount,
              NegativeCount |-> c.negativeCount,
              NormalizedMentionRate |-> normalizedMentionRate,
              WeightedPositionScore |-> wps,
              RecommendationRate |-> recommendationRate,
              RelativeSentimentIndex |-> rsi,
              ConfidenceGapSq |-> conf.gapSq,
              ConfidenceLevel |-> conf.level,
              ResponseCount |-> n,
              CategoryAvgSentiment |-> categoryAvgSentiment(c)]

(***************************************************************************)
(* Texts.  A Go string is a sequence of bytes, here a sequence of numbers  *)
(* 0..255; a text is the UTF-8 encoding of its characters.  The characters *)
(* of the model are U+0000..U+00FF: one byte below 128, two bytes (lead    *)
(* byte 194 or 195, one continuation byte) from 128 on.                    *)
(***************************************************************************)

\* the printable characters from byte 32 to byte 90, and from byte 97 to 122
AsciiLow == " !\"#$%&'()*+,-./0123456789:;<=>?@ABCDEFGHIJKLMNOPQRSTUVWXYZ"
AsciiLetters == "abcdefghijklmnopqrstuvwxyz"

\* the byte of a one-character string literal
ByteOf(c) ==
    IF \E i \in 1..Len(AsciiLow) : SubSeq(AsciiLow, i, i) = c
    THEN 31 + (CHOOSE i \in 1..Len(AsciiLow) : SubSeq(AsciiLow, i, i) = c)
    ELSE 96 + (CHOOSE i \in 1..Len(AsciiLetters) : SubSeq(AsciiLetters, i, i) = c)

\* the bytes of a string literal of the source
Bytes(s) == [i \in 1..Len(s) |-> ByteOf(SubSeq(s, i, i))]

Max(a, b) == IF a > b THEN a ELSE b

\* unicode.IsLetter and unicode.IsDigit on U+0000..U+00FF
IsLetter(r) ==
    \/ r \in 65..90
    \/ r \in 97..122
    \/ r \in {170, 181, 186}
    \/ r \in 192..214
    \/ r \in 216..246
    \/ r \in 248..255

IsDigit(r) == r \in 48..57

\* unicode.ToLower on U+0000..U+00FF
LowerRune(r) ==
    IF r \in 65..90 \/ r \in 192..214 \/ r \in 216..222 THEN r + 32 ELSE r

\* utf8.DecodeRuneInString at byte index i (from 1), and utf8.EncodeRune
RuneAt(t, i) ==
    IF t[i] < 128 THEN t[i] ELSE (t[i] - 192) * 64 + (t[i + 1] - 128)

EncodeRune(r) ==
    IF r < 128 THEN <<r>> ELSE <<192 + (r \div 64), 128 + (r % 64)>>

RECURSIVE EncodeRunes(_)
EncodeRunes(rs) ==
    IF rs = << >> THEN << >> ELSE EncodeRune(Head(rs)) \o EncodeRunes(Tail(rs))

\* strings.ToLower: rune by rune.  A rune of U+0000..U+00FF and its lowercase
\* form have encodings of the same length, so byte i of the result is byte 1
\* or byte 2 of the lowercase form of the rune that byte i of t belongs to
ToLower(t) ==
    [i \in 1..Len(t) |->
        IF t[i] < 128 THEN LowerRune(t[i])
        ELSE IF t[i] >= 192 THEN EncodeRune(LowerRune(RuneAt(t, i)))[1]
        ELSE EncodeRune(LowerRune(RuneAt(t, i - 1)))[2]]

\* strings.Index: the byte offset (from 0) of the first occurrence, else -1
Index(s, substr) ==
    LET hits == {i \in 0..(Len(s) - Len(substr)) :
                    SubSeq(s, i + 1, i + Len(substr)) = substr}
    IN  IF hits = {} THEN -1 ELSE CHOOSE i \in hits : \A j \in hits : i <= j

\* strings.Contains
Contains(s, substr) == Index(s, substr) # -1

\* s[from:to] of Go, offsets from 0
Slice(s, from, to) == SubSeq(s, from + 1, to)

(***************************************************************************)
(* MentionDetector.  A detected mention is [EntityName, EntityType,        *)
(* Sentiment, ContextSnippet, Position].                                   *)
(***************************************************************************)

\* context kept on each side of a match, and the reach of a negation word
ContextChars == 50
NegationWindow == 30

Ellipsis == Bytes("...")

\* rune(text[pos-1]) and rune(text[endPos]) are single bytes read as runes
isWordBoundary(t, pos, length) ==
    LET endPos == pos + length
    IN  /\ ~ (pos > 0 /\ (IsLetter(t[pos]) \/ IsDigit(t[pos])))
        /\ ~ (endPos < Len(t) /\ (IsLetter(t[endPos + 1]) \/ IsDigit(t[endPos + 1])))

positiveWords ==
    << Bytes("best"), Bytes("excellent"), Bytes("great"), Bytes("amazing"),
       Bytes("outstanding"), Bytes("fantastic"), Bytes("superior"),
       Bytes("recommended"), Bytes("top"), Bytes("leading"), Bytes("preferred"),
       Bytes("favorite"), Bytes("powerful"), Bytes("efficient"),
       Bytes("reliable"), Bytes("innovative"), Bytes("impressive"),
       Bytes("love"), Bytes("perfect"), Bytes("awesome"), Bytes("brilliant"),
       Bytes("exceptional"), Bytes("superb"), Bytes("highly recommended"),
       Bytes("top-rated"), Bytes("must-have"), Bytes("game-changer") >>

negativeWords ==
    << Bytes("worst"), Bytes("terrible"), Bytes("awful"), Bytes("poor"),
       Bytes("bad"), Bytes("disappointing"), Bytes("inferior"), Bytes("avoid"),
       Bytes("limited"), Bytes("outdated"), Bytes("slow"), Bytes("expensive"),
       Bytes("complicated"), Bytes("confusing"), Bytes("unreliable"),
       Bytes("buggy"), Bytes("frustrating"), Bytes("hate"), Bytes("horrible"),
       Bytes("dreadful"), Bytes("useless"), Bytes("overpriced"),
       Bytes("lacking"), Bytes("not recommended"), Bytes("stay away"),
       Bytes("problems"), Bytes("issues"), Bytes("fails") >>

negationWords ==
    << Bytes("not"), Bytes("no"), Bytes("never"), Bytes("neither"),
       Bytes("nobody"), Bytes("nothing"), Bytes("nowhere"), Bytes("hardly"),
       Bytes("barely"), Bytes("doesn't"), Bytes("don't"), Bytes("didn't"),
       Bytes("won't"), Bytes("isn't"), Bytes("aren't"), Bytes("wasn't"),
       Bytes("weren't"), Bytes("hasn't"), Bytes("haven't"), Bytes("hadn't") >>

\* a negation word in the 30 bytes before the first occurrence of the target
hasNearbyNegation(t, targetWord) ==
    LET targetPos == Index(t, targetWord)
    IN  /\ targetPos # -1
        /\ LET beforeText == Slice(t, Max(0, targetPos - NegationWindow), targetPos)
           IN  \E i \in 1..Len(negationWords) : Contains(beforeText, negationWords[i])

\* the words of a list that occur in the context, negated or not
WordsFound(words, lowerContext, negated) ==
    {i \in 1..Len(words) :
        /\ Contains(lowerContext, words[i])
        /\ hasNearbyNegation(lowerContext, words[i]) = negated}

analyzeSentiment(context) ==
    LET lowerContext == ToLower(context)
        positiveScore == Cardinality(WordsFound(positiveWords, lowerContext, FALSE))
                         + Cardinality(WordsFound(negativeWords, lowerContext, TRUE))
        negativeScore == Cardinality(WordsFound(positiveWords, lowerContext, TRUE))
                         + Cardinality(WordsFound(negativeWords, lowerContext, FALSE))
    IN  IF positiveScore > negativeScore /\ positiveScore > 0 THEN "positive"
        ELSE IF negativeScore > positiveScore /\ negativeScore > 0 THEN "negative"
        ELSE "neutral"

\* the loop of findEntityMentions from searchStart on
RECURSIVE ScanFrom(_, _, _, _, _)
ScanFrom(originalText, lowerText, entityName, entityType, searchStart) ==
    LET lowerEntity == ToLower(entityName)
        pos == Index(Slice(lowerText, searchStart, Len(lowerText)), lowerEntity)
        actualPos == searchStart + pos
        contextStart == Max(0, actualPos - ContextChars)
        contextEnd == Min(Len(originalText), actualPos + Len(entityName) + ContextChars)
        context == (IF contextStart > 0 THEN Ellipsis ELSE << >>)
                   \o Slice(originalText, contextStart, contextEnd)
                   \o (IF contextEnd < Len(originalText) THEN Ellipsis ELSE << >>)
        found == IF isWordBoundary(lowerText, actualPos, Len(lowerEntity))
                 THEN << [EntityName |-> entityName,
                          EntityType |-> entityType,
                          Sentiment |-> "",
                          ContextSnippet |-> context,
                          Position |-> actualPos] >>
                 ELSE << >>
    IN  IF pos = -1 THEN << >>
        ELSE found \o ScanFrom(originalText, lowerText, entityName, entityType,
                               actualPos + Len(lowerEntity))

findEntityMentions(originalText, lowerText, entityName, entityType) ==
    ScanFrom(originalText, lowerText, entityName, entityType, 0)

\* the mentions of the names of a list, in the order of the list
RECURSIVE findAll(_, _, _, _)
findAll(originalText, lowerText, names, entityType) ==
    IF names = << >> THEN << >>
    ELSE findEntityMentions(originalText, lowerText, Head(names), entityType)
         \o findAll(originalText, lowerText, Tail(names), entityType)

DetectMentions(responseText, b) ==
    LET lowerText == ToLower(responseText)
        found == findEntityMentions(responseText, lowerText, b.Name, "brand")
                 \o findAll(responseText, lowerText, b.Aliases, "brand")
                 \o findAll(responseText, lowerText, b.Competitors, "competitor")
    IN  [i \in 1..Len(found) |->
            [found[i] EXCEPT !.Sentiment = analyzeSentiment(found[i].ContextSnippet)]]

VARIABLES
    now,          \* the clock
    rl,           \* AnalysisService.rateLimiter
    inFlight,     \* AnalysisService.inFlightTracker.inFlight
    avail,        \* the providers of CompareService that are configured
    responses,    \* ai_responses rows per brand
    pc,           \* position of each caller
    brand,        \* brandID argument of the call
    nPrompts,     \* len(prompts) after the cap
    idx,          \* position of the prompt loop
    errors,       \* len(result.Errors)
    responsesRun, \* result.ResponsesRun
    success,      \* result.Success
    ret,          \* what the call returned
    modelIDs,     \* RunComparison: modelIDs
    g,            \* RunComparison: state of the goroutine of each model
    results,      \* RunComparison: result.Results
    successCalls, \* RunComparison: result.SuccessCalls
    k,            \* storeCompareResults: position in result.Results
    \* history variables
    acquired,     \* TryAcquire of this call returned true
    acqTime,      \* when it did
    relCount,     \* number of Release calls of this call
    gateOK,       \* CanProceed admitted and RecordCall recorded the pending Query
    queried,      \* prompts of this call for which Query was called
    qfail,        \* some Query of this call failed
    rlStop,       \* the prompt loop ended on a rate-limit rejection
    calcCount,    \* CalculateAndStoreMetrics invocations of this call
    window,       \* number of RecordCall calls a ticks ago, for a < Minute
    lastAcq,      \* time of the last successful TryAcquire per brand, -1 after Release
    overrun,      \* some run of the brand has held its slot for Timeout or longer
    deleted,      \* DeleteByBrandID of this call returned without error
    \* the locks, when the primitives are followed lock by lock
    mu,           \* holder of RateLimiter.mu and of InFlightTracker.mu, 0 when free
    call,         \* the primitive a caller is invoking
    \* the response-analysis pipeline
    stage,        \* position of the pipeline
    text,         \* responseText of DetectMentions, context of analyzeSentiment
    profile,      \* the brand: Name, Aliases, Competitors
    mentions,     \* what DetectMentions returned
    sentiment,    \* what analyzeSentiment returned
    run,          \* the latest run as stored: per response, its mentions
    trends,       \* visibility scores of the stored snapshots, oldest first
    snapshot,     \* the snapshot CalculateAndStoreMetrics emitted
    \* the loop of findEntityMentions, when followed iteration by iteration
    searchStart   \* searchStart

gateVars == <<rl, inFlight>>
dbVars == <<responses>>
runVars == <<brand, nPrompts, idx, errors, responsesRun, success, ret>>
cmpVars == <<modelIDs, g, results, successCalls, k>>
lockVars == <<mu, call>>
pipeVars == <<stage, text, profile, mentions, sentiment, run, trends, snapshot>>
scanVars == <<searchStart>>
\* what no action of the services changes
envVars == <<avail, pipeVars, scanVars>>
histVars == <<acquired, acqTime, relCount, gateOK, queried, qfail, rlStop,
              calcCount, window, lastAcq, deleted>>
vars == <<now, rl, inFlight, avail, responses, pc, brand, nPrompts,
          idx, errors, responsesRun, success, ret, modelIDs, g, results,
          successCalls, k, acquired, acqTime, relCount, gateOK, queried,
          qfail, rlStop, calcCount, window, lastAcq, overrun, deleted, mu, call,
          stage, text, profile, mentions, sentiment, run, trends, snapshot,
          searchStart>>

\* a row stored by an earlier run
OldRow == <<0, 1>>

\* no call has been made; every brand has a row of an earlier run
InitCallers ==
    /\ now = 0
    /\ inFlight = NewInFlightTracker
    /\ responses = [b \in Brands |-> {OldRow}]
    /\ pc = [p \in Procs |-> "idle"]
    /\ brand = [p \in Procs |-> 1]
    /\ nPrompts = [p \in Procs |-> 0]
    /\ idx = [p \in Procs |-> 1]
    /\ errors = [p \in Procs |-> 0]
    /\ responsesRun = [p \in Procs |-> 0]
    /\ success = [p \in Procs |-> TRUE]
    /\ ret = [p \in Procs |-> "none"]
    /\ modelIDs = [p \in Procs |-> << >>]
    /\ g = [p \in Procs |-> << >>]
    /\ results = [p \in Procs |-> << >>]
    /\ successCalls = [p \in Procs |-> 0]
    /\ k = [p \in Procs |-> 1]
    /\ acquired = [p \in Procs |-> FALSE]
    /\ acqTime = [p \in Procs |-> 0]
    /\ relCount = [p \in Procs |-> 0]
    /\ gateOK = [p \in Procs |-> FALSE]
    /\ queried = [p \in Procs |-> {}]
    /\ qfail = [p \in Procs |-> FALSE]
    /\ rlStop = [p \in Procs |-> FALSE]
    /\ calcCount = [p \in Procs |-> 0]
    /\ window = [a \in 0..(Minute - 1) |-> 0]
    /\ lastAcq = [b \in Brands |-> -1]
    /\ overrun = [b \in Brands |-> FALSE]
    /\ deleted = [p \in Procs |-> FALSE]
    /\ mu = [limiter |-> 0, tracker |-> 0]
    /\ call = [p \in Procs |-> "none"]

\* the services are constructed
InitServices ==
    /\ rl = NewRateLimiter(MinInterval, MaxCallsPerMin, 0)
    /\ InitCallers

\* no response is being analysed
InitPipeline ==
    /\ stage = "idle"
    /\ text = << >>
    /\ profile = [Name |-> << >>, Aliases |-> << >>, Competitors |-> << >>]
    /\ mentions = << >>
    /\ sentiment = "none"
    /\ run = << >>
    /\ trends = << >>
    /\ snapshot = << >>
    /\ searchStart = 0

\* analysis calls: both providers of the compare service are configured
Init == InitServices /\ InitPipeline /\ avail = Models

\* comparison calls: OPENROUTER_API_KEY and GROQ_API_KEY may each be unset
InitCmp == InitServices /\ InitPipeline /\ avail \in SUBSET Models

\* the runs that hold the slot of brand b: acquired and not yet released
Holders(b) == {p \in Procs : acquired[p] /\ relCount[p] = 0 /\ brand[p] = b}

\* time passes
Tick ==
    /\ now < MaxTime
    /\ now' = now + 1
    /\ overrun' = [b \in Brands |->
                     overrun[b] \/ \E p \in Holders(b) : now + 1 - acqTime[p] >= Timeout]
    /\ window' = [a \in 0..(Minute - 1) |-> IF a = 0 THEN 0 ELSE window[a - 1]]
    /\ UNCHANGED <<gateVars, envVars, dbVars, pc, runVars, cmpVars, acquired,
                   acqTime, relCount, gateOK, queried, qfail, rlStop,
                   calcCount, lastAcq, deleted,
                   lockVars>>

(***************************************************************************)
(* Callers of AnalysisService.RunAnalysis                                  *)
(***************************************************************************)
\* controllers.RunAnalysis: an HTTP request for brand b arrives
HTTPRunAnalysis(p, b) ==
    /\ pc[p] = "idle"
    /\ pc' = [pc EXCEPT ![p] = "canrun_inflight"]
    /\ brand' = [brand EXCEPT ![p] = b]
    /\ UNCHANGED <<now, gateVars, envVars, dbVars, nPrompts, idx, errors,
                   responsesRun, success, ret, cmpVars, histVars, overrun, lockVars>>

\* AnalysisService.CanRun: the in-flight check
CanRunInFlight(p) ==
    /\ pc[p] = "canrun_inflight"
    /\ IF IsInFlight(inFlight, brand[p], now)
       THEN /\ pc' = [pc EXCEPT ![p] = "done"]
            /\ ret' = [ret EXCEPT ![p] = "CannotRun"]
       ELSE /\ pc' = [pc EXCEPT ![p] = "canrun_rate"]
            /\ ret' = ret
    /\ UNCHANGED <<now, gateVars, envVars, dbVars, brand, nPrompts, idx, errors,
                   responsesRun, success, cmpVars, histVars, overrun, lockVars>>

\* AnalysisService.CanRun: the rate-limiter check
CanRunRate(p) ==
    /\ pc[p] = "canrun_rate"
    /\ rl' = CanProceedState(rl, now)
    /\ IF CanProceed(rl, now)
       THEN /\ pc' = [pc EXCEPT ![p] = "tryacquire"]
            /\ ret' = ret
       ELSE /\ pc' = [pc EXCEPT ![p] = "done"]
            /\ ret' = [ret EXCEPT ![p] = "CannotRun"]
    /\ UNCHANGED <<now, inFlight, envVars, dbVars, brand, nPrompts, idx, errors,
                   responsesRun, success, cmpVars, histVars, overrun, lockVars>>

\* Scheduler.runScheduledAnalysis: calls RunAnalysis without CanRun
ScheduledAnalysis(p, b) ==
    /\ pc[p] = "idle"
    /\ pc' = [pc EXCEPT ![p] = "tryacquire"]
    /\ brand' = [brand EXCEPT ![p] = b]
    /\ UNCHANGED <<now, gateVars, envVars, dbVars, nPrompts, idx, errors,
                   responsesRun, success, ret, cmpVars, histVars, overrun, lockVars>>

(***************************************************************************)
(* AnalysisService.RunAnalysis                                             *)
(***************************************************************************)
\* the rejected call running the deferred Release on its way out
RA_TryAcquire_ReleaseOnReject(p) ==
    /\ pc[p] = "tryacquire"
    /\ inFlight' = TryAcquire(inFlight, brand[p], now)
    /\ IF TryAcquireOk(inFlight, brand[p], now)
       THEN /\ pc' = [pc EXCEPT ![p] = "ratecheck"]
            /\ acquired' = [acquired EXCEPT ![p] = TRUE]
            /\ acqTime' = [acqTime EXCEPT ![p] = now]
            /\ lastAcq' = [lastAcq EXCEPT ![brand[p]] = now]
            /\ ret' = ret
       ELSE /\ pc' = [pc EXCEPT ![p] = "release"]
            /\ ret' = [ret EXCEPT ![p] = "ErrRequestInFlight"]
            /\ UNCHANGED <<acquired, acqTime, lastAcq>>
    /\ UNCHANGED <<now, rl, envVars, dbVars, brand, nPrompts, idx, errors,
                   responsesRun, success, cmpVars, relCount, gateOK, queried,
                   qfail, rlStop, calcCount, window, overrun, deleted,
                   lockVars>>

\* if !s.inFlightTracker.TryAcquire(brandID) { return nil, ErrRequestInFlight }
RA_TryAcquire(p) ==
    /\ pc[p] = "tryacquire"
    /\ inFlight' = TryAcquire(inFlight, brand[p], now)
    /\ IF TryAcquireOk(inFlight, brand[p], now)
       THEN /\ pc' = [pc EXCEPT ![p] = "ratecheck"]
            /\ acquired' = [acquired EXCEPT ![p] = TRUE]
            /\ acqTime' = [acqTime EXCEPT ![p] = now]
            /\ lastAcq' = [lastAcq EXCEPT ![brand[p]] = now]
            /\ ret' = ret
       ELSE /\ pc' = [pc EXCEPT ![p] = "done"]
            /\ ret' = [ret EXCEPT ![p] = "ErrRequestInFlight"]
            /\ UNCHANGED <<acquired, acqTime, lastAcq>>
    /\ UNCHANGED <<now, rl, envVars, dbVars, brand, nPrompts, idx, errors,
                   responsesRun, success, cmpVars, relCount, gateOK, queried,
                   qfail, rlStop, calcCount, window, overrun, deleted,
                   lockVars>>

\* the rate-limited return leaving without the release
RA_RateCheck_NoRelease(p) ==
    /\ pc[p] = "ratecheck"
    /\ rl' = CanProceedState(rl, now)
    /\ IF CanProceed(rl, now)
       THEN /\ pc' = [pc EXCEPT ![p] = "lookup"]
            /\ ret' = ret
       ELSE /\ pc' = [pc EXCEPT ![p] = "done"]
            /\ ret' = [ret EXCEPT ![p] = "ErrRateLimited"]
    /\ UNCHANGED <<now, inFlight, envVars, dbVars, brand, nPrompts, idx, errors,
                   responsesRun, success, cmpVars, histVars, overrun, lockVars>>

\* if !s.rateLimiter.CanProceed() { return nil, ErrRateLimited }
RA_RateCheck(p) ==
    /\ pc[p] = "ratecheck"
    /\ rl' = CanProceedState(rl, now)
    /\ IF CanProceed(rl, now)
       THEN /\ pc' = [pc EXCEPT ![p] = "lookup"]
            /\ ret' = ret
       ELSE /\ pc' = [pc EXCEPT ![p] = "release"]
            /\ ret' = [ret EXCEPT ![p] = "ErrRateLimited"]
    /\ UNCHANGED <<now, inFlight, envVars, dbVars, brand, nPrompts, idx, errors,
                   responsesRun, success, cmpVars, histVars, overrun, lockVars>>

\* the lookup with the deletion marked done while the rows stay
RA_LookupWith_KeepResponses(p, n, outcomes) ==
    /\ pc[p] = "lookup"
    /\ \/ /\ pc' = [pc EXCEPT ![p] = "release"]
          /\ \E e \in {"BrandError", "PromptsError"} : ret' = [ret EXCEPT ![p] = e]
          /\ UNCHANGED <<nPrompts, responses, deleted>>
       \/ /\ \E len \in 0..n :
                nPrompts' = [nPrompts EXCEPT ![p] = Min(len, maxPrompts)]
          /\ \E ok \in outcomes :
                /\ responses' = responses
                /\ deleted' = [deleted EXCEPT ![p] = ok]
          /\ pc' = [pc EXCEPT ![p] = "loop"]
          /\ ret' = ret
    /\ UNCHANGED <<now, gateVars, envVars, brand, idx, errors,
                   responsesRun, success, cmpVars, acquired, acqTime, relCount,
                   gateOK, queried, qfail, rlStop, calcCount, window, lastAcq,
                   overrun, lockVars>>

\* brandRepo.GetByID, promptRepo.GetByID / GetAll returning at most n prompts,
\* the cap at maxPrompts, then responseRepo.DeleteByBrandID(brandID), which
\* succeeds or fails as outcomes allows; its error is logged and ignored
RA_LookupWith(p, n, outcomes) ==
    /\ pc[p] = "lookup"
    /\ \/ /\ pc' = [pc EXCEPT ![p] = "release"]
          /\ \E e \in {"BrandError", "PromptsError"} : ret' = [ret EXCEPT ![p] = e]
          /\ UNCHANGED <<nPrompts, responses, deleted>>
       \/ /\ \E len \in 0..n :
                nPrompts' = [nPrompts EXCEPT ![p] = Min(len, maxPrompts)]
          /\ \E ok \in outcomes :
                /\ responses' = IF ok THEN DeleteByBrandID(responses, brand[p])
                                ELSE responses
                /\ deleted' = [deleted EXCEPT ![p] = ok]
          /\ pc' = [pc EXCEPT ![p] = "loop"]
          /\ ret' = ret
    /\ UNCHANGED <<now, gateVars, envVars, brand, idx, errors,
                   responsesRun, success, cmpVars, acquired, acqTime, relCount,
                   gateOK, queried, qfail, rlStop, calcCount, window, lastAcq,
                   overrun, lockVars>>

\* with concurrent callers: at most NPrompts prompts, the deletion succeeds
RA_Lookup(p) == RA_LookupWith(p, NPrompts, {TRUE})

\* the loop head skipping a rejected prompt and going on with the next
RA_LoopCheck_SkipOnLimit(p) ==
    /\ pc[p] = "loop"
    /\ IF idx[p] > nPrompts[p]
       THEN /\ pc' = [pc EXCEPT ![p] = "calc"]
            /\ UNCHANGED <<rl, errors, rlStop, idx>>
       ELSE /\ rl' = CanProceedState(rl, now)
            /\ IF CanProceed(rl, now)
               THEN /\ pc' = [pc EXCEPT ![p] = "record"]
                    /\ UNCHANGED <<errors, rlStop, idx>>
               ELSE /\ pc' = pc
                    /\ idx' = [idx EXCEPT ![p] = @ + 1]
                    /\ errors' = [errors EXCEPT ![p] = @ + 1]
                    /\ rlStop' = [rlStop EXCEPT ![p] = TRUE]
    /\ UNCHANGED <<now, inFlight, envVars, dbVars, brand, nPrompts,
                   responsesRun, success, ret, cmpVars, acquired, acqTime,
                   relCount, gateOK, queried, qfail, calcCount, window,
                   lastAcq, overrun, deleted, lockVars>>

\* head of the prompt loop: if !s.rateLimiter.CanProceed() { ...; break }
RA_LoopCheck(p) ==
    /\ pc[p] = "loop"
    /\ IF idx[p] > nPrompts[p]
       THEN /\ pc' = [pc EXCEPT ![p] = "calc"]
            /\ UNCHANGED <<rl, errors, rlStop>>
       ELSE /\ rl' = CanProceedState(rl, now)
            /\ IF CanProceed(rl, now)
               THEN /\ pc' = [pc EXCEPT ![p] = "record"]
                    /\ UNCHANGED <<errors, rlStop>>
               ELSE /\ pc' = [pc EXCEPT ![p] = "calc"]
                    /\ errors' = [errors EXCEPT ![p] = @ + 1]
                    /\ rlStop' = [rlStop EXCEPT ![p] = TRUE]
    /\ UNCHANGED <<now, inFlight, envVars, dbVars, brand, nPrompts, idx,
                   responsesRun, success, ret, cmpVars, acquired, acqTime,
                   relCount, gateOK, queried, qfail, calcCount, window,
                   lastAcq, overrun, deleted,
                   lockVars>>

\* s.rateLimiter.RecordCall(), then s.provider.Query is called
RA_Record(p) ==
    /\ pc[p] = "record"
    /\ rl' = RecordCall(rl, now)
    /\ window' = [window EXCEPT ![0] = @ + 1]
    /\ gateOK' = [gateOK EXCEPT ![p] = TRUE]
    /\ queried' = [queried EXCEPT ![p] = @ \cup {idx[p]}]
    /\ pc' = [pc EXCEPT ![p] = "query"]
    /\ UNCHANGED <<now, inFlight, envVars, dbVars, runVars, cmpVars, acquired,
                   acqTime, relCount, qfail, rlStop, calcCount, lastAcq, overrun, deleted,
                   lockVars>>

\* a failed Query ending the prompt loop instead of continuing it
RA_Query_Abort(p) ==
    /\ pc[p] = "query"
    /\ gateOK' = [gateOK EXCEPT ![p] = FALSE]
    /\ \/ /\ pc' = [pc EXCEPT ![p] = "store"]
          /\ UNCHANGED <<errors, qfail, idx>>
       \/ /\ errors' = [errors EXCEPT ![p] = @ + 1]
          /\ qfail' = [qfail EXCEPT ![p] = TRUE]
          /\ idx' = [idx EXCEPT ![p] = @ + 1]
          /\ pc' = [pc EXCEPT ![p] = "calc"]
    /\ UNCHANGED <<now, gateVars, envVars, dbVars, brand, nPrompts, responsesRun,
                   success, ret, cmpVars, acquired, acqTime, relCount, queried,
                   rlStop, calcCount, window, lastAcq, overrun, deleted,
                   lockVars>>

\* s.provider.Query returns: a response, or an error (cancellation included)
RA_Query(p) ==
    /\ pc[p] = "query"
    /\ gateOK' = [gateOK EXCEPT ![p] = FALSE]
    /\ \/ /\ pc' = [pc EXCEPT ![p] = "store"]
          /\ UNCHANGED <<errors, qfail, idx>>
       \/ /\ errors' = [errors EXCEPT ![p] = @ + 1]
          /\ qfail' = [qfail EXCEPT ![p] = TRUE]
          /\ idx' = [idx EXCEPT ![p] = @ + 1]
          /\ pc' = [pc EXCEPT ![p] = "loop"]
    /\ UNCHANGED <<now, gateVars, envVars, dbVars, brand, nPrompts, responsesRun,
                   success, ret, cmpVars, acquired, acqTime, relCount, queried,
                   rlStop, calcCount, window, lastAcq, overrun, deleted,
                   lockVars>>

\* responseRepo.Create, DetectMentions, StoreMentions, ResponsesRun++, time.Sleep
RA_Store(p) ==
    /\ pc[p] = "store"
    /\ \/ /\ errors' = [errors EXCEPT ![p] = @ + 1]
          /\ UNCHANGED <<responses, responsesRun>>
       \/ /\ responses' = Create(responses, brand[p], <<p, idx[p]>>)
          /\ \E e \in 0..1 : errors' = [errors EXCEPT ![p] = @ + e]
          /\ responsesRun' = [responsesRun EXCEPT ![p] = @ + 1]
    /\ idx' = [idx EXCEPT ![p] = @ + 1]
    /\ pc' = [pc EXCEPT ![p] = "loop"]
    /\ UNCHANGED <<now, gateVars, envVars, brand, nPrompts, success, ret,
                   cmpVars, histVars, overrun, lockVars>>

\* CalculateAndStoreMetrics skipped when the batch recorded an error
RA_Calc_OnlyOnFullSuccess(p) ==
    /\ pc[p] = "calc"
    /\ \E calcErr \in 0..1 :
         /\ IF responsesRun[p] > 0 /\ errors[p] = 0
            THEN /\ calcCount' = [calcCount EXCEPT ![p] = @ + 1]
                 /\ errors' = [errors EXCEPT ![p] = @ + calcErr]
            ELSE /\ calcErr = 0
                 /\ UNCHANGED <<calcCount, errors>>
         /\ success' = [success EXCEPT
                          ![p] = ~(errors'[p] > 0 /\ responsesRun[p] = 0)]
    /\ ret' = [ret EXCEPT ![p] = "result"]
    /\ pc' = [pc EXCEPT ![p] = "release"]
    /\ UNCHANGED <<now, gateVars, envVars, dbVars, brand, nPrompts, idx,
                   responsesRun, cmpVars, acquired, acqTime, relCount, gateOK,
                   queried, qfail, rlStop, window, lastAcq, overrun, deleted,
                   lockVars>>

\* CalculateAndStoreMetrics when ResponsesRun > 0, then Success and Message
RA_Calc(p) ==
    /\ pc[p] = "calc"
    /\ \E calcErr \in 0..1 :
         /\ IF responsesRun[p] > 0
            THEN /\ calcCount' = [calcCount EXCEPT ![p] = @ + 1]
                 /\ errors' = [errors EXCEPT ![p] = @ + calcErr]
            ELSE /\ calcErr = 0
                 /\ UNCHANGED <<calcCount, errors>>
         /\ success' = [success EXCEPT
                          ![p] = ~(errors'[p] > 0 /\ responsesRun[p] = 0)]
    /\ ret' = [ret EXCEPT ![p] = "result"]
    /\ pc' = [pc EXCEPT ![p] = "release"]
    /\ UNCHANGED <<now, gateVars, envVars, dbVars, brand, nPrompts, idx,
                   responsesRun, cmpVars, acquired, acqTime, relCount, gateOK,
                   queried, qfail, rlStop, window, lastAcq, overrun, deleted,
                   lockVars>>

\* a Release that removes the entry only when this call inserted it
RA_Release_OwnEntryOnly(p) ==
    /\ pc[p] = "release"
    /\ inFlight' = IF brand[p] \in DOMAIN inFlight /\ inFlight[brand[p]] = acqTime[p]
                   THEN Release(inFlight, brand[p])
                   ELSE inFlight
    /\ relCount' = [relCount EXCEPT ![p] = @ + 1]
    /\ lastAcq' = [lastAcq EXCEPT ![brand[p]] = -1]
    /\ pc' = [pc EXCEPT ![p] = "done"]
    /\ UNCHANGED <<now, rl, envVars, dbVars, runVars, cmpVars, acquired, acqTime,
                   gateOK, queried, qfail, rlStop, calcCount, window, overrun, deleted,
                   lockVars>>

\* defer s.inFlightTracker.Release(brandID)
RA_Release(p) ==
    /\ pc[p] = "release"
    /\ inFlight' = Release(inFlight, brand[p])
    /\ relCount' = [relCount EXCEPT ![p] = @ + 1]
    /\ lastAcq' = [lastAcq EXCEPT ![brand[p]] = -1]
    /\ pc' = [pc EXCEPT ![p] = "done"]
    /\ UNCHANGED <<now, rl, envVars, dbVars, runVars, cmpVars, acquired, acqTime,
                   gateOK, queried, qfail, rlStop, calcCount, window, overrun, deleted,
                   lockVars>>

Next ==
    \/ Tick
    \/ \E p \in Procs : \E b \in BrandsOf(p) : HTTPRunAnalysis(p, b)
    \/ \E p \in Procs : CanRunInFlight(p)
    \/ \E p \in Procs : CanRunRate(p)
    \/ \E p \in Procs : \E b \in BrandsOf(p) : ScheduledAnalysis(p, b)
    \/ \E p \in Procs : RA_TryAcquire(p)
    \/ \E p \in Procs : RA_RateCheck(p)
    \/ \E p \in Procs : RA_Lookup(p)
    \/ \E p \in Procs : RA_LoopCheck(p)
    \/ \E p \in Procs : RA_Record(p)
    \/ \E p \in Procs : RA_Query(p)
    \/ \E p \in Procs : RA_Store(p)
    \/ \E p \in Procs : RA_Calc(p)
    \/ \E p \in Procs : RA_Release(p)

Spec == Init /\ [][Next]_vars

(***************************************************************************)
(* CompareService.RunComparison                                            *)
(***************************************************************************)
\* len(prompts) * len(modelIDs)
TotalCalls(p) == nPrompts[p] * Len(modelIDs[p])

\* the model lists a request can name
ModelLists == UNION {[1..n -> Models] : n \in 1..NModelIDs}

\* the default list when the request names no model
DefaultModels ==
    (IF "openrouter" \in avail THEN <<"openrouter">> ELSE << >>)
        \o (IF "groq" \in avail THEN <<"groq">> ELSE << >>)

\* IsAvailable, brandRepo.GetByID, at most n prompts found, the cap at
\* maxPrompts, the model list
RunComparisonUpTo(p, b, n) ==
    /\ pc[p] = "idle"
    /\ brand' = [brand EXCEPT ![p] = b]
    /\ IF avail = {}
       THEN /\ pc' = [pc EXCEPT ![p] = "done"]
            /\ ret' = [ret EXCEPT ![p] = "NotAvailable"]
            /\ UNCHANGED <<nPrompts, modelIDs>>
       ELSE \/ /\ pc' = [pc EXCEPT ![p] = "done"]
               /\ \E e \in {"BrandError", "PromptsError"} :
                     ret' = [ret EXCEPT ![p] = e]
               /\ UNCHANGED <<nPrompts, modelIDs>>
            \/ /\ \E len \in 0..n :
                     nPrompts' = [nPrompts EXCEPT ![p] = Min(len, maxPrompts)]
               /\ \E ms \in ModelLists \cup {DefaultModels} :
                     modelIDs' = [modelIDs EXCEPT ![p] = ms]
               /\ pc' = [pc EXCEPT ![p] = "c_prompt"]
               /\ ret' = ret
    /\ UNCHANGED <<now, gateVars, dbVars, envVars, idx, errors, responsesRun,
                   success, g, results, successCalls, k, histVars, overrun, lockVars>>

\* with concurrent callers: at most NCmpPrompts prompts
RunComparison(p, b) == RunComparisonUpTo(p, b, NCmpPrompts)

\* wg.Wait of the previous prompt, then one goroutine per model for this prompt;
\* a goroutine whose provider is configured calls Query
C_Spawn(p) ==
    /\ pc[p] = "c_prompt"
    /\ idx[p] <= nPrompts[p]
    /\ \A j \in DOMAIN g[p] : g[p][j] = "done"
    /\ g' = [g EXCEPT ![p] = [j \in 1..Len(modelIDs[p]) |->
                IF modelIDs[p][j] \in avail THEN "query" ELSE "err"]]
    /\ pc' = [pc EXCEPT ![p] = "c_wait"]
    /\ UNCHANGED <<now, gateVars, dbVars, envVars, runVars, modelIDs, results,
                   successCalls, k, histVars, overrun, lockVars>>

\* Query / QueryWithModel returns in goroutine j: a response, or an error
\* while the call has fewer than maxFailed failed results
C_QueryWith(p, j, maxFailed) ==
    /\ pc[p] = "c_wait"
    /\ j \in DOMAIN g[p]
    /\ g[p][j] = "query"
    /\ \E r \in {"ok", "err"} :
          /\ r = "err" =>
                errors[p] + Cardinality({i \in DOMAIN g[p] : g[p][i] = "err"}) < maxFailed
          /\ g' = [g EXCEPT ![p][j] = r]
    /\ UNCHANGED <<now, gateVars, dbVars, envVars, pc, runVars, modelIDs, results,
                   successCalls, k, histVars, overrun, lockVars>>

\* with concurrent callers: any Query may fail
C_Query(p, j) == C_QueryWith(p, j, NCmpPrompts * NModelIDs)

\* the append without mu: a goroutine may write over the slice as it was
\* when the goroutines of this prompt were started
C_Append_Unlocked(p, j) ==
    /\ pc[p] = "c_wait"
    /\ j \in DOMAIN g[p]
    /\ g[p][j] \in {"ok", "err"}
    /\ \E seen \in {results[p], SubSeq(results[p], 1, (idx[p] - 1) * Len(modelIDs[p]))} :
          results' = [results EXCEPT ![p] =
                        Append(seen, [prompt |-> idx[p], model |-> j, ok |-> g[p][j] = "ok"])]
    /\ IF g[p][j] = "ok"
       THEN /\ successCalls' = [successCalls EXCEPT ![p] = @ + 1]
            /\ UNCHANGED errors
       ELSE /\ errors' = [errors EXCEPT ![p] = @ + 1]
            /\ UNCHANGED successCalls
    /\ g' = [g EXCEPT ![p][j] = "done"]
    /\ UNCHANGED <<now, gateVars, dbVars, envVars, pc, brand, nPrompts, idx,
                   responsesRun, success, ret, modelIDs, k, histVars, overrun, lockVars>>

\* goroutine j appends its ModelResult under mu
C_Append(p, j) ==
    /\ pc[p] = "c_wait"
    /\ j \in DOMAIN g[p]
    /\ g[p][j] \in {"ok", "err"}
    /\ results' = [results EXCEPT ![p] =
                     Append(@, [prompt |-> idx[p], model |-> j, ok |-> g[p][j] = "ok"])]
    /\ IF g[p][j] = "ok"
       THEN /\ successCalls' = [successCalls EXCEPT ![p] = @ + 1]
            /\ UNCHANGED errors
       ELSE /\ errors' = [errors EXCEPT ![p] = @ + 1]
            /\ UNCHANGED successCalls
    /\ g' = [g EXCEPT ![p][j] = "done"]
    /\ UNCHANGED <<now, gateVars, dbVars, envVars, pc, brand, nPrompts, idx,
                   responsesRun, success, ret, modelIDs, k, histVars, overrun, lockVars>>

\* wg.Wait returns, time.Sleep, next prompt
C_Wait(p) ==
    /\ pc[p] = "c_wait"
    /\ \A j \in DOMAIN g[p] : g[p][j] = "done"
    /\ idx' = [idx EXCEPT ![p] = @ + 1]
    /\ pc' = [pc EXCEPT ![p] = "c_prompt"]
    /\ UNCHANGED <<now, gateVars, dbVars, envVars, brand, nPrompts, errors,
                   responsesRun, success, ret, cmpVars, histVars, overrun, lockVars>>

\* after the loop: Success and Message; storeCompareResults when SuccessCalls > 0
C_Finish(p) ==
    /\ pc[p] = "c_prompt"
    /\ idx[p] > nPrompts[p]
    /\ success' = [success EXCEPT ![p] = ~(successCalls[p] = 0 /\ errors[p] > 0)]
    /\ ret' = [ret EXCEPT ![p] = "result"]
    /\ pc' = [pc EXCEPT ![p] = IF successCalls[p] > 0 THEN "c_delete" ELSE "done"]
    /\ UNCHANGED <<now, gateVars, dbVars, envVars, brand, nPrompts, idx, errors,
                   responsesRun, cmpVars, histVars, overrun, lockVars>>

\* storeCompareResults: DeleteByBrandID, then brandRepo.GetByID
C_Delete(p) ==
    /\ pc[p] = "c_delete"
    /\ responses' = DeleteByBrandID(responses, brand[p])
    /\ \E n \in {"c_store", "done"} : pc' = [pc EXCEPT ![p] = n]
    /\ UNCHANGED <<now, gateVars, envVars, runVars, cmpVars, histVars, overrun, lockVars>>

\* storeCompareResults: the next result; failed results are skipped
C_Store(p) ==
    /\ pc[p] = "c_store"
    /\ k[p] <= Len(results[p])
    /\ IF results[p][k[p]].ok
       THEN \/ responses' = Create(responses, brand[p], <<p, k[p]>>)
            \/ UNCHANGED responses
       ELSE UNCHANGED responses
    /\ k' = [k EXCEPT ![p] = @ + 1]
    /\ UNCHANGED <<now, gateVars, envVars, pc, runVars, modelIDs, g, results,
                   successCalls, histVars, overrun, lockVars>>

\* storeCompareResults: CalculateAndStoreMetrics
C_Calc(p) ==
    /\ pc[p] = "c_store"
    /\ k[p] > Len(results[p])
    /\ calcCount' = [calcCount EXCEPT ![p] = @ + 1]
    /\ pc' = [pc EXCEPT ![p] = "done"]
    /\ UNCHANGED <<now, gateVars, dbVars, envVars, runVars, cmpVars, acquired,
                   acqTime, relCount, gateOK, queried, qfail, rlStop, window,
                   lastAcq, overrun, deleted,
                   lockVars>>

NextCmp ==
    \/ \E p \in Procs : \E b \in BrandsOf(p) : RunComparison(p, b)
    \/ \E p \in Procs : C_Spawn(p)
    \/ \E p \in Procs, j \in 1..NModelIDs : C_Query(p, j)
    \/ \E p \in Procs, j \in 1..NModelIDs : C_Append(p, j)
    \/ \E p \in Procs : C_Wait(p)
    \/ \E p \in Procs : C_Finish(p)
    \/ \E p \in Procs : C_Delete(p)
    \/ \E p \in Procs : C_Store(p)
    \/ \E p \in Procs : C_Calc(p)

SpecCmp == InitCmp /\ [][NextCmp]_vars

(***************************************************************************)
(* One RunComparison on its own up to the result it returns: up to         *)
(* MaxRunPrompts prompts are found and at most MaxRunFailures results      *)
(* are failures before a further Query fails. storeCompareResults, which   *)
(* follows, only reads the result.                                         *)
(***************************************************************************)
NextCmpRun ==
    \/ \E b \in BrandsOf(Runner) : RunComparisonUpTo(Runner, b, MaxRunPrompts)
    \/ C_Spawn(Runner)
    \/ \E j \in 1..NModelIDs : C_QueryWith(Runner, j, MaxRunFailures)
    \/ \E j \in 1..NModelIDs : C_Append(Runner, j)
    \/ C_Wait(Runner)
    \/ C_Finish(Runner)

SpecCmpRun == InitCmp /\ [][NextCmpRun]_vars

(***************************************************************************)
(* The gate primitives lock by lock: every method is                       *)
(*     mu.Lock(); defer mu.Unlock(); body                                  *)
(* Callers invoke the primitives in any order, again and again.            *)
(***************************************************************************)
LimiterOps == {"CanProceed", "RecordCall", "TimeUntilNextAllowed"}
TrackerOps == {"TryAcquire", "Release", "IsInFlight"}

\* the mutex a primitive locks
MutexOf(op) == IF op \in LimiterOps THEN "limiter" ELSE "tracker"

lockFrame == <<envVars, dbVars, nPrompts, idx, errors, responsesRun, success,
               ret, cmpVars, histVars, overrun>>

\* a caller invokes primitive op (with brandID b for the tracker)
Mu_Call(p, op, b) ==
    /\ pc[p] = "idle"
    /\ op \in LimiterOps => b = 1
    /\ op = "RecordCall" =>
         rl.callsThisMin + Cardinality({q \in Procs : call[q] = "RecordCall"})
             < MaxCounter
    /\ call' = [call EXCEPT ![p] = op]
    /\ brand' = [brand EXCEPT ![p] = b]
    /\ pc' = [pc EXCEPT ![p] = "lock"]
    /\ UNCHANGED <<now, gateVars, mu, lockFrame>>

\* mu.Lock() returns once the mutex is free
Mu_Lock(p) ==
    /\ pc[p] = "lock"
    /\ mu[MutexOf(call[p])] = 0
    /\ mu' = [mu EXCEPT ![MutexOf(call[p])] = p]
    /\ pc' = [pc EXCEPT ![p] = "body"]
    /\ UNCHANGED <<now, gateVars, brand, call, lockFrame>>

\* the method returns: the deferred mu.Unlock() runs
Mu_Unlock(p) ==
    /\ mu' = [mu EXCEPT ![MutexOf(call[p])] = 0]
    /\ pc' = [pc EXCEPT ![p] = "idle"]
    /\ call' = [call EXCEPT ![p] = "none"]
    /\ brand' = [brand EXCEPT ![p] = 1]

Mu_CanProceed(p) ==
    /\ pc[p] = "body" /\ call[p] = "CanProceed"
    /\ rl' = CanProceedState(rl, now)
    /\ Mu_Unlock(p)
    /\ UNCHANGED <<now, inFlight, lockFrame>>

Mu_RecordCall(p) ==
    /\ pc[p] = "body" /\ call[p] = "RecordCall"
    /\ rl' = RecordCall(rl, now)
    /\ Mu_Unlock(p)
    /\ UNCHANGED <<now, inFlight, lockFrame>>

Mu_TimeUntilNextAllowed(p) ==
    /\ pc[p] = "body" /\ call[p] = "TimeUntilNextAllowed"
    /\ Mu_Unlock(p)
    /\ UNCHANGED <<now, gateVars, lockFrame>>

\* TryAcquire returning false without the unlock
Mu_TryAcquire_NoUnlock(p) ==
    /\ pc[p] = "body" /\ call[p] = "TryAcquire"
    /\ inFlight' = TryAcquire(inFlight, brand[p], now)
    /\ IF TryAcquireOk(inFlight, brand[p], now)
       THEN Mu_Unlock(p)
       ELSE /\ pc' = [pc EXCEPT ![p] = "idle"]
            /\ call' = [call EXCEPT ![p] = "none"]
            /\ brand' = [brand EXCEPT ![p] = 1]
            /\ mu' = mu
    /\ UNCHANGED <<now, rl, lockFrame>>

Mu_TryAcquire(p) ==
    /\ pc[p] = "body" /\ call[p] = "TryAcquire"
    /\ inFlight' = TryAcquire(inFlight, brand[p], now)
    /\ Mu_Unlock(p)
    /\ UNCHANGED <<now, rl, lockFrame>>

Mu_Release(p) ==
    /\ pc[p] = "body" /\ call[p] = "Release"
    /\ inFlight' = Release(inFlight, brand[p])
    /\ Mu_Unlock(p)
    /\ UNCHANGED <<now, rl, lockFrame>>

Mu_IsInFlight(p) ==
    /\ pc[p] = "body" /\ call[p] = "IsInFlight"
    /\ Mu_Unlock(p)
    /\ UNCHANGED <<now, gateVars, lockFrame>>

NextLock ==
    \/ Tick
    \/ \E p \in Procs, op \in LimiterOps \cup TrackerOps, b \in Brands :
          Mu_Call(p, op, b)
    \/ \E p \in Procs : Mu_Lock(p)
    \/ \E p \in Procs : Mu_CanProceed(p)
    \/ \E p \in Procs : Mu_RecordCall(p)
    \/ \E p \in Procs : Mu_TimeUntilNextAllowed(p)
    \/ \E p \in Procs : Mu_TryAcquire(p)
    \/ \E p \in Procs : Mu_Release(p)
    \/ \E p \in Procs : Mu_IsInFlight(p)

SpecLock == Init /\ [][NextLock]_vars

(***************************************************************************)
(* One scheduled RunAnalysis on its own: up to MaxRunPrompts prompts are   *)
(* found, DeleteByBrandID succeeds or fails, and the limiter has a minimum *)
(* interval of 0 or MinInterval ticks and a ceiling of MaxCallsPerMin or   *)
(* MaxRunCalls calls.                                                      *)
(***************************************************************************)
InitRun ==
    /\ \E minInterval \in {0, MinInterval}, maxCallsPerMin \in {MaxCallsPerMin, MaxRunCalls} :
          rl = NewRateLimiter(minInterval, maxCallsPerMin, 0)
    /\ InitCallers /\ InitPipeline /\ avail = Models

NextRun ==
    \/ Tick
    \/ \E b \in BrandsOf(Runner) : ScheduledAnalysis(Runner, b)
    \/ RA_TryAcquire(Runner)
    \/ RA_RateCheck(Runner)
    \/ RA_LookupWith(Runner, MaxRunPrompts, BOOLEAN)
    \/ RA_LoopCheck(Runner)
    \/ RA_Record(Runner)
    \/ RA_Query(Runner)
    \/ RA_Store(Runner)
    \/ RA_Calc(Runner)
    \/ RA_Release(Runner)

SpecRun == InitRun /\ [][NextRun]_vars

(***************************************************************************)
(* A RateLimiter on its own, constructed with any arguments, used as       *)
(* CanRun and RunAnalysis use it: CanProceed, then RecordCall when it       *)
(* returned true and TimeUntilNextAllowed when it returned false.          *)
(***************************************************************************)
InitLimiter ==
    /\ \E minInterval \in 1..MaxMinInterval, maxCallsPerMin \in 1..MaxCallsPerMin :
          rl = NewRateLimiter(minInterval, maxCallsPerMin, 0)
    /\ InitCallers
    /\ InitPipeline
    /\ avail = Models

Lim_CanProceed(p) ==
    /\ pc[p] = "idle"
    /\ rl' = CanProceedState(rl, now)
    /\ pc' = [pc EXCEPT ![p] = IF CanProceed(rl, now) THEN "record" ELSE "limited"]
    /\ UNCHANGED <<now, inFlight, envVars, dbVars, runVars, cmpVars, histVars,
                   overrun, lockVars>>

Lim_RecordCall(p) ==
    /\ pc[p] = "record"
    /\ rl' = RecordCall(rl, now)
    /\ window' = [window EXCEPT ![0] = @ + 1]
    /\ pc' = [pc EXCEPT ![p] = "idle"]
    /\ UNCHANGED <<now, inFlight, envVars, dbVars, runVars, cmpVars, acquired,
                   acqTime, relCount, gateOK, queried, qfail, rlStop, calcCount,
                   lastAcq, overrun, deleted,
                   lockVars>>

\* waitTime := s.rateLimiter.TimeUntilNextAllowed(); return ErrRateLimited
Lim_TimeUntilNextAllowed(p) ==
    /\ pc[p] = "limited"
    /\ ret' = [ret EXCEPT ![p] = "ErrRateLimited"]
    /\ pc' = [pc EXCEPT ![p] = "idle"]
    /\ UNCHANGED <<now, gateVars, envVars, dbVars, brand, nPrompts, idx, errors,
                   responsesRun, success, cmpVars, histVars, overrun, lockVars>>

NextLimiter ==
    \/ Tick
    \/ \E p \in Procs : Lim_CanProceed(p)
    \/ \E p \in Procs : Lim_RecordCall(p)
    \/ \E p \in Procs : Lim_TimeUntilNextAllowed(p)

SpecLimiter == InitLimiter /\ [][NextLimiter]_vars

(***************************************************************************)
(* MetricsCalculator.CalculateAndStoreMetrics over a stored run            *)
(***************************************************************************)
serviceVars == <<now, gateVars, avail, dbVars, pc, runVars, cmpVars, histVars,
                 overrun, lockVars>>

SeqUpTo(S, n) == UNION {[1..j -> S] : j \in 0..n}

Sentiments == {"positive", "neutral", "negative"}

\* the mention rows GetByResponseID can return; the recommended rows are
\* neutral ones, the calculator reading flag and sentiment independently
MentionRows ==
    [EntityType : {"brand"}, Sentiment : Sentiments,
     PositionRank : 1..MaxRank, IsRecommendation : {FALSE}]
    \cup [EntityType : {"brand"}, Sentiment : {"neutral"},
          PositionRank : 1..MaxRank, IsRecommendation : {TRUE}]
    \cup [EntityType : {"competitor"}, Sentiment : Sentiments,
          PositionRank : {0}, IsRecommendation : {FALSE}]
    \cup [EntityType : {"competitor"}, Sentiment : {"neutral"},
          PositionRank : {1}, IsRecommendation : {TRUE}]

\* a response of the run: GetByResponseID fails, or returns its mentions
ResponseRows ==
    {[err |-> TRUE, mentions |-> << >>]}
    \cup {[err |-> FALSE, mentions |-> ms] : ms \in SeqUpTo(MentionRows, MaxMentions)}

\* visibility scores of earlier snapshots
ScoreValues == {Rat(0, 1), Rat(50, 1), Rat(100, 1)}

\* a run with one response that mentions the brand first
OneMentionRun ==
    << [err |-> FALSE,
        mentions |-> << [EntityType |-> "brand", Sentiment |-> "neutral",
                         PositionRank |-> 1, IsRecommendation |-> FALSE] >>] >>

\* a run is stored: any run with no history, or one of two runs with any history
InitMetrics ==
    /\ InitServices
    /\ avail = Models
    /\ stage = "stored"
    /\ text = << >>
    /\ profile = [Name |-> << >>, Aliases |-> << >>, Competitors |-> << >>]
    /\ mentions = << >>
    /\ sentiment = "none"
    /\ snapshot = << >>
    /\ searchStart = 0
    /\ \/ run \in SeqUpTo(ResponseRows, MaxResponses) /\ trends = << >>
       \/ run \in {<< >>, OneMentionRun} /\ trends \in SeqUpTo(ScoreValues, MaxHistory)

\* CalculateAndStoreMetrics(brandID): GetLatestRunByBrandID, the aggregation,
\* calculateConfidenceScore, metricRepo.Create
CalculateAndStoreMetrics ==
    /\ stage = "stored"
    /\ \/ /\ stage' = "read_error"
          /\ UNCHANGED <<snapshot, trends>>
       \/ \E trendErr \in BOOLEAN :
            LET t == IF trendErr THEN << >>
                     ELSE GetTrendsByBrandID(trends, TrendLimit)
                snap == MetricSnapshot(run, t)
            IN  /\ trendErr => Len(run) > 0 /\ Len(trends) > 0
                /\ snapshot' = <<snap>>
                /\ \/ /\ trends' = Append(trends, snap.VisibilityScore)
                      /\ stage' = IF trendErr THEN "trend_error" ELSE "calculated"
                   \/ /\ trends' = trends
                      /\ stage' = IF trendErr THEN "trend_error" ELSE "store_error"
    /\ UNCHANGED <<serviceVars, scanVars, text, profile, mentions, sentiment, run>>

NextMetrics == CalculateAndStoreMetrics

SpecMetrics == InitMetrics /\ [][NextMetrics]_vars

(***************************************************************************)
(* The analysis of one response: DetectMentions, the position ranker and   *)
(* the recommendation detector that fill PositionRank and                  *)
(* IsRecommendation, StoreMentions, CalculateAndStoreMetrics.              *)
(***************************************************************************)

\* a recommendation phrase reaches 150 bytes; a mention may lead it by 50
RecommendReach == 150
RecommendLead == 50

recommendationPatterns ==
    << Bytes("i recommend"), Bytes("is my top pick"), Bytes("go with") >>

\* the byte offsets at which a pattern occurs in the text
Occurrences(t, pattern) ==
    {q \in 0..(Len(t) - Len(pattern)) : Slice(t, q, q + Len(pattern)) = pattern}

\* the detector without the limit on how far a mention may lead the phrase
detectRecommendation_NoLead(lowerText, position) ==
    \E i \in 1..Len(recommendationPatterns) :
        \E q \in Occurrences(lowerText, recommendationPatterns[i]) :
            Abs(q - position) < RecommendReach

\* some phrase starts less than 150 bytes from the mention and at most 50
\* bytes after it
detectRecommendation(lowerText, position) ==
    \E i \in 1..Len(recommendationPatterns) :
        \E q \in Occurrences(lowerText, recommendationPatterns[i]) :
            /\ Abs(q - position) < RecommendReach
            /\ position >= q - RecommendLead

\* the ranker counting in the order of insertion
positionRank_InsertionOrder(ms, i) ==
    IF ms[i].EntityType # "brand" THEN 0
    ELSE 1 + Cardinality({j \in 1..Len(ms) : ms[j].EntityType = "brand" /\ j < i})

\* the rank of the i-th mention: brand mentions count from 1 in the order of
\* their positions, competitor mentions keep 0
positionRank(ms, i) ==
    IF ms[i].EntityType # "brand" THEN 0
    ELSE 1 + Cardinality({j \in 1..Len(ms) :
                /\ ms[j].EntityType = "brand"
                /\ \/ ms[j].Position < ms[i].Position
                   \/ ms[j].Position = ms[i].Position /\ j < i})

\* a mention as stored
MentionRow(ms, i, lowerText) ==
    [EntityName |-> ms[i].EntityName,
     EntityType |-> ms[i].EntityType,
     Sentiment |-> ms[i].Sentiment,
     ContextSnippet |-> ms[i].ContextSnippet,
     Position |-> ms[i].Position,
     PositionRank |-> positionRank(ms, i),
     IsRecommendation |-> detectRecommendation(lowerText, ms[i].Position)]

\* the longest text of the scans, in characters
MaxTextLen == 3

\* A, a, 1, space, e with acute accent, right guillemet
ScanRunes == {65, 97, 49, 32, 233, 187}

ScanTexts == {EncodeRunes(rs) : rs \in SeqUpTo(ScanRunes, MaxTextLen)}

\* a, A, aa
ScanNames == {<<97>>, <<65>>, <<97, 97>>}

ScanProfiles ==
    [Name : ScanNames,
     Aliases : {<< >>} \cup {<<e>> : e \in ScanNames},
     Competitors : {<< >>} \cup {<<e>> : e \in ScanNames}]

Acme == [Name |-> Bytes("Acme"), Aliases |-> << >>,
         Competitors |-> <<Bytes("Globex")>>]

Scenario ==
    Bytes("I recommend Acme because it's the best choice, unlike Globex which has issues.")

\* 160 bytes without a name and without a recommendation phrase
LongFiller ==
    Bytes("which is what we used last week ") \o Bytes("which is what we used last week ")
    \o Bytes("which is what we used last week ") \o Bytes("which is what we used last week ")
    \o Bytes("which is what we used last week ")

ScenarioTexts ==
    {Scenario,
     Bytes("I recommend Acme for this"),
     Bytes("Globex is not the best, go with ACME."),
     Bytes("I recommend Globex, ") \o LongFiller \o Bytes("unlike Acme"),
     Bytes("Acme, ") \o SubSeq(LongFiller, 1, 64) \o Bytes("is my top pick"),
     Bytes("Acmes"),
     << >>}

\* a brand whose alias is part of its name
AcmeCorp == [Name |-> Bytes("Acme Corp"), Aliases |-> <<Bytes("Acme")>>,
             Competitors |-> <<Bytes("Globex")>>]

AcmeCorpTexts ==
    {Bytes("Acme beats Globex; go with Acme Corp."),
     Bytes("Acme Corp, Acme and ACME"),
     Bytes("Globex, then Acme Corp")}

\* a response has been received and stored
InitAnalyze ==
    /\ InitServices
    /\ avail = Models
    /\ stage = "idle"
    /\ mentions = << >>
    /\ sentiment = "none"
    /\ run = << >>
    /\ snapshot = << >>
    /\ searchStart = 0
    /\ \/ /\ text \in ScanTexts
          /\ profile \in ScanProfiles
          /\ trends = << >>
       \/ /\ text \in ScenarioTexts
          /\ profile = Acme
          /\ trends \in {<< >>, <<Rat(50, 1)>>}
       \/ /\ text \in AcmeCorpTexts
          /\ profile = AcmeCorp
          /\ trends = << >>

Analyze_Detect ==
    /\ stage = "idle"
    /\ mentions' = DetectMentions(text, profile)
    /\ stage' = "detected"
    /\ UNCHANGED <<serviceVars, scanVars, text, profile, sentiment, run, trends, snapshot>>

Analyze_Rank ==
    /\ stage = "detected"
    /\ mentions' = [i \in 1..Len(mentions) |-> MentionRow(mentions, i, ToLower(text))]
    /\ stage' = "ranked"
    /\ UNCHANGED <<serviceVars, scanVars, text, profile, sentiment, run, trends, snapshot>>

\* StoreMentions stops at the first mention the repository rejects; the rows
\* before it stay.  readErr: GetByResponseID will fail for this response.
Analyze_Store ==
    /\ stage = "ranked"
    /\ \E stored \in 0..Len(mentions), readErr \in BOOLEAN :
          /\ readErr => stored = Len(mentions)
          /\ run' = << [err |-> readErr, mentions |-> SubSeq(mentions, 1, stored)] >>
    /\ stage' = "stored"
    /\ UNCHANGED <<serviceVars, scanVars, text, profile, mentions, sentiment, trends, snapshot>>

NextAnalyze ==
    \/ Analyze_Detect
    \/ Analyze_Rank
    \/ Analyze_Store
    \/ CalculateAndStoreMetrics

SpecAnalyze == InitAnalyze /\ [][NextAnalyze]_vars

(***************************************************************************)
(* The loop of findEntityMentions on its own, one iteration per step, for  *)
(* the name of the brand; the name may be empty.                           *)
(***************************************************************************)
InitScan ==
    /\ InitServices
    /\ avail = Models
    /\ stage = "scan"
    /\ text \in ScanTexts
    /\ \E entityName \in ScanNames \cup {<< >>} :
          profile = [Name |-> entityName, Aliases |-> << >>, Competitors |-> << >>]
    /\ mentions = << >>
    /\ sentiment = "none"
    /\ run = << >>
    /\ trends = << >>
    /\ snapshot = << >>
    /\ searchStart = 0

\* one pass through the body of for { ... }: break when strings.Index finds
\* nothing, else the boundary test, the append, and the new searchStart
Scan_Iterate ==
    /\ stage = "scan"
    /\ LET originalText == text
           entityName == profile.Name
           lowerText == ToLower(originalText)
           lowerEntity == ToLower(entityName)
           pos == Index(Slice(lowerText, searchStart, Len(lowerText)), lowerEntity)
           actualPos == searchStart + pos
           contextStart == Max(0, actualPos - ContextChars)
           contextEnd == Min(Len(originalText), actualPos + Len(entityName) + ContextChars)
           context == (IF contextStart > 0 THEN Ellipsis ELSE << >>)
                      \o Slice(originalText, contextStart, contextEnd)
                      \o (IF contextEnd < Len(originalText) THEN Ellipsis ELSE << >>)
       IN  IF pos = -1
           THEN /\ stage' = "scanned"
                /\ UNCHANGED <<mentions, searchStart>>
           ELSE /\ IF isWordBoundary(lowerText, actualPos, Len(lowerEntity))
                   THEN /\ Len(mentions) < MaxScanMentions
                        /\ mentions' = Append(mentions,
                                          [EntityName |-> entityName,
                                           EntityType |-> "brand",
                                           Sentiment |-> "",
                                           ContextSnippet |-> context,
                                           Position |-> actualPos])
                   ELSE mentions' = mentions
                /\ searchStart' = actualPos + Len(lowerEntity)
                /\ stage' = stage
    /\ UNCHANGED <<serviceVars, text, profile, sentiment, run, trends, snapshot>>

NextScan == Scan_Iterate

\* the loop is a sequential program: it takes its next step when it has one
SpecScan == InitScan /\ [][NextScan]_vars /\ WF_vars(NextScan)

(***************************************************************************)
(* MentionDetector.analyzeSentiment over a context snippet                 *)
(***************************************************************************)

\* the longest snippet, in phrases
MaxPhrases == 4

\* the last phrase is longer than the reach of a negation word and holds no
\* word of the lexicon
Phrases ==
    {Bytes("not "), Bytes("the Best "), Bytes("worst "), Bytes("Acme is "),
     Bytes("which is what we used last week ")}

RECURSIVE Concat(_)
Concat(ps) == IF ps = << >> THEN << >> ELSE Head(ps) \o Concat(Tail(ps))

Snippets == {Concat(ps) : ps \in SeqUpTo(Phrases, MaxPhrases)}

InitSentiment ==
    /\ InitServices
    /\ avail = Models
    /\ stage = "snippet"
    /\ text \in Snippets
    /\ profile = [Name |-> << >>, Aliases |-> << >>, Competitors |-> << >>]
    /\ mentions = << >>
    /\ sentiment = "none"
    /\ run = << >>
    /\ trends = << >>
    /\ snapshot = << >>
    /\ searchStart = 0

AnalyzeSentiment ==
    /\ stage = "snippet"
    /\ sentiment' = analyzeSentiment(text)
    /\ stage' = "classified"
    /\ UNCHANGED <<serviceVars, scanVars, text, profile, mentions, run, trends, snapshot>>

NextSentiment == AnalyzeSentiment

SpecSentiment == InitSentiment /\ [][NextSentiment]_vars

(***************************************************************************)
(* Properties                                                              *)
(***************************************************************************)
RECURSIVE SumTo(_, _)
SumTo(f, n) == IF n < 0 THEN 0 ELSE f[n] + SumTo(f, n - 1)

\* C1 as stated: for every brand at most one run that acquired the slot and
\* has not released it is executing, whatever the run durations.
C1_AtMostOneRun ==
    \A b \in Brands : Cardinality(Holders(b)) <= 1

\* C1: for every brand, as long as no run of that brand has held its slot for
\* the staleness timeout or longer, at most one run that acquired the slot and
\* has not released it is executing.
C1_AtMostOneRunUntilStale ==
    \A b \in Brands : ~overrun[b] => Cardinality(Holders(b)) <= 1

\* a run holds the slot and a second call for the brand was rejected
C1_Witness ==
    \E p, q \in Procs :
        /\ p # q /\ brand[p] = brand[q]
        /\ p \in Holders(brand[p]) /\ ~overrun[brand[p]]
        /\ pc[q] = "done" /\ ret[q] = "ErrRequestInFlight"

\* C2: a TryAcquire that follows a successful TryAcquire of the same brand
\* with no Release in between returns false and changes nothing when less
\* than Timeout has elapsed, and returns true and restarts the entry's start
\* time when Timeout or more has elapsed.
C2_TryAcquireTimeout ==
    [][\A p \in Procs :
         (pc[p] = "tryacquire" /\ pc'[p] # "tryacquire" /\ lastAcq[brand[p]] >= 0)
         => IF now - lastAcq[brand[p]] < Timeout
            THEN /\ pc'[p] = "done" /\ ret'[p] = "ErrRequestInFlight"
                 /\ ~acquired'[p] /\ inFlight' = inFlight
            ELSE /\ pc'[p] = "ratecheck" /\ acquired'[p]
                 /\ brand[p] \in DOMAIN inFlight'
                 /\ inFlight'[brand[p]] = now]_vars

\* a slot was re-acquired after the timeout while its first holder still runs
C2_Witness ==
    \E p, q \in Procs :
        /\ p # q /\ brand[p] = brand[q]
        /\ p \in Holders(brand[p]) /\ q \in Holders(brand[p])
        /\ acqTime[p] >= acqTime[q] + Timeout
        /\ inFlight[brand[p]] = acqTime[p]

\* C3: a RunAnalysis call whose TryAcquire succeeded has called Release
\* exactly once when it returns, never more than once, and a call whose
\* TryAcquire failed never calls Release.
C3_ReleaseOnce ==
    \A p \in Procs :
        /\ relCount[p] <= 1
        /\ ~acquired[p] => relCount[p] = 0
        /\ (pc[p] = "done" /\ acquired[p]) => relCount[p] = 1

\* one call returned after failed queries and released; another was rejected
C3_Witness ==
    \E p, q \in Procs :
        /\ pc[p] = "done" /\ ret[p] = "result" /\ qfail[p] /\ relCount[p] = 1
        /\ pc[q] = "done" /\ ret[q] = "ErrRequestInFlight" /\ relCount[q] = 0

\* C4: whenever a provider Query is in progress, in RunAnalysis or in a
\* goroutine of RunComparison, CanProceed admitted it, RecordCall recorded it
\* and the caller holds the in-flight slot of the brand.
C4_QueryGated ==
    \A p \in Procs :
        (pc[p] = "query" \/ \E j \in DOMAIN g[p] : g[p][j] = "query")
        => gateOK[p] /\ p \in Holders(brand[p])

\* C5: any two RecordCall times are at least MinInterval apart.
C5_MinInterval ==
    \A a1, a2 \in DOMAIN window :
        /\ window[a1] <= 1
        /\ (a1 < a2 /\ window[a1] > 0 /\ window[a2] > 0) => a2 - a1 >= MinInterval

\* C6: in the last Minute ticks, as in every window of that length, at most
\* MaxCallsPerMin calls were recorded.
C6_RollingCeiling ==
    SumTo(window, Minute - 1) <= MaxCallsPerMin

\* a step of caller p in which CanProceed is invoked
CanProceedStep(p) ==
    /\ \/ pc[p] \in {"canrun_rate", "ratecheck"}
       \/ pc[p] = "loop" /\ idx[p] <= nPrompts[p]
    /\ pc'[p] # pc[p]

\* a step of caller p in which RecordCall is invoked
RecordCallStep(p) == pc[p] = "record" /\ pc'[p] = "query"

\* C7 as stated: CanProceed changes no rate-limiter state.
C7_CanProceedPure ==
    [][\A p \in Procs : CanProceedStep(p) => rl' = rl]_vars

\* C7: CanProceed never changes lastCall; when a minute or more has passed
\* since minuteStart it sets callsThisMin to 0 and minuteStart to the current
\* time, and otherwise it changes nothing; only CanProceed and RecordCall
\* change the rate-limiter state.
C7_CanProceedResetsWindow ==
    [][/\ \A p \in Procs : CanProceedStep(p) =>
             /\ rl'.lastCall = rl.lastCall
             /\ IF now - rl.minuteStart >= Minute
                THEN rl'.callsThisMin = 0 /\ rl'.minuteStart = now
                ELSE rl' = rl
       /\ rl' # rl => \E p \in Procs : CanProceedStep(p) \/ RecordCallStep(p)]_vars

\* CanProceed has restarted the minute window
C7_Witness ==
    rl.minuteStart = now /\ now >= Minute /\ rl.callsThisMin = 0

\* C8: a mutex is held only by a caller inside the body of a method of that
\* primitive, so a caller holds one mutex at most and none after returning;
\* a caller waiting for a mutex waits for one that is free or whose holder is
\* in a method body, which returns at its next step.
C8_NoBlocking ==
    /\ \A p \in Procs : \A m \in {"limiter", "tracker"} :
          mu[m] = p => pc[p] = "body" /\ MutexOf(call[p]) = m
    /\ \A p \in Procs : pc[p] = "body" => mu[MutexOf(call[p])] = p
    /\ \A p \in Procs : pc[p] = "lock" =>
          \/ mu[MutexOf(call[p])] = 0
          \/ \E q \in Procs : mu[MutexOf(call[p])] = q /\ pc[q] = "body"

\* one caller is in TryAcquire while another waits for the tracker's mutex
C8_Witness ==
    \E p, q \in Procs :
        /\ pc[p] = "body" /\ call[p] = "TryAcquire"
        /\ pc[q] = "lock" /\ call[q] \in TrackerOps

\* run p has deleted the brand's old responses and its snapshot is not computed yet
Storing(p) ==
    \/ pc[p] \in {"loop", "record", "query", "store"}
    \/ pc[p] = "calc" /\ responsesRun[p] > 0
    \/ pc[p] = "c_store"

\* C9: the delete, store and compute-snapshot steps of two runs of one brand
\* never interleave.
C9_StorageSerialized ==
    \A p, q \in Procs :
        (p # q /\ brand[p] = brand[q]) => ~(Storing(p) /\ Storing(q))

\* C10 as stated: after a Query failure the remaining prompts are still queried.
C10_AllQueriedAfterFailure ==
    \A p \in Procs :
        (pc[p] \in {"release", "done"} /\ ret[p] = "result" /\ qfail[p])
        => queried[p] = 1..nPrompts[p]

\* C10: a RunAnalysis batch that returns a result has queried every prompt
\* unless the rate limiter rejected one, which ends the loop; a Query failure
\* does not; and the result is marked failed only if no response succeeded.
C10_BatchContinues ==
    \A p \in Procs :
        (pc[p] \in {"release", "done"} /\ ret[p] = "result")
        => /\ queried[p] = 1..nPrompts[p] \/ rlStop[p]
           /\ ~success[p] => responsesRun[p] = 0

\* a Query failed, the next prompt was queried and stored, the result succeeded
C10_Witness ==
    \E p \in Procs :
        /\ pc[p] = "done" /\ ret[p] = "result" /\ qfail[p]
        /\ nPrompts[p] = 2 /\ queried[p] = {1, 2}
        /\ responsesRun[p] = 1 /\ errors[p] = 1 /\ success[p]

\* C11: a RunAnalysis batch that ends with at least one stored response has
\* invoked CalculateAndStoreMetrics exactly once, per-item errors and a
\* rate-limit stop included; no response is stored after that invocation, and
\* the run calls Release only afterwards, as its last step.
C11_MetricsOncePerBatch ==
    \A p \in Procs :
        /\ calcCount[p] <= 1
        /\ (pc[p] \in {"release", "done"} /\ ret[p] = "result" /\ responsesRun[p] > 0)
              => calcCount[p] = 1
        /\ calcCount[p] > 0 => pc[p] \in {"release", "done"}
        /\ pc[p] # "done" => relCount[p] = 0

\* a batch cut short by the rate limit, with one response stored, has recalculated
C11_Witness ==
    \E p \in Procs :
        /\ pc[p] = "done" /\ ret[p] = "result" /\ rlStop[p]
        /\ responsesRun[p] = 1 /\ errors[p] >= 1 /\ calcCount[p] = 1
        /\ relCount[p] = 1

\* the snapshot was built and handed to metricRepo.Create
Emitted == stage \in {"calculated", "trend_error", "store_error"}

\* C12: when the run has no responses, CalculateAndStoreMetrics emits a
\* snapshot whose visibility score, citation share and four component scores
\* are 0 and whose confidence level is low, whatever the history; it fails
\* only if the repository fails.
C12_EmptyRunSnapshot ==
    (Len(run) = 0 /\ stage # "stored")
    => \/ stage \in {"read_error", "store_error"} /\ Len(snapshot) <= 1
       \/ /\ stage = "calculated"
          /\ Len(snapshot) = 1
          /\ snapshot[1].VisibilityScore = <<0, 1>>
          /\ snapshot[1].CitationShare = <<0, 1>>
          /\ snapshot[1].NormalizedMentionRate = <<0, 1>>
          /\ snapshot[1].WeightedPositionScore = <<0, 1>>
          /\ snapshot[1].RecommendationRate = <<0, 1>>
          /\ snapshot[1].RelativeSentimentIndex = <<0, 1>>
          /\ snapshot[1].ConfidenceLevel = "low"
          /\ trends[Len(trends)] = <<0, 1>>

\* an empty run was calculated for a brand with three earlier snapshots of 100
C12_Witness ==
    /\ Len(run) = 0 /\ stage = "calculated" /\ Len(snapshot) = 1
    /\ Len(trends) = 4 /\ \A i \in 1..3 : trends[i] = <<100, 1>>

\* x lies in [lo, hi], for fractions with positive denominators and integers lo, hi
InRange(x, lo, hi) == lo * x[2] <= x[1] /\ x[1] <= hi * x[2]

\* C13: every emitted snapshot has its visibility score in [0, 100] and each
\* of its four component scores in [0, 1].
C13_ScoresInRange ==
    Emitted =>
        /\ InRange(snapshot[1].VisibilityScore, 0, 100)
        /\ InRange(snapshot[1].NormalizedMentionRate, 0, 1)
        /\ InRange(snapshot[1].WeightedPositionScore, 0, 1)
        /\ InRange(snapshot[1].RecommendationRate, 0, 1)
        /\ InRange(snapshot[1].RelativeSentimentIndex, 0, 1)

\* one response names the brand twice, at ranks 1 and 2: the sum 1.7 is clamped
C13_Witness ==
    /\ Emitted /\ Len(run) = 1 /\ Len(run[1].mentions) = 2
    /\ \A j \in 1..2 : /\ run[1].mentions[j].EntityType = "brand"
                       /\ run[1].mentions[j].PositionRank = j
    /\ snapshot[1].WeightedPositionScore = <<1, 1>>

\* the mentions of the run, as <<response, index>> pairs
MentionsOfRun ==
    {ij \in (1..Len(run)) \X (1..MaxMentions + 1) : ij[2] <= Len(run[ij[1]].mentions)}

MentionAt(ij) == run[ij[1]].mentions[ij[2]]

\* the number of brand mentions of the run whose rank is in R
BrandMentionsRanked(R) ==
    Cardinality({ij \in MentionsOfRun :
                    MentionAt(ij).EntityType = "brand" /\ MentionAt(ij).PositionRank \in R})

MentionsFeeling(ty, sv) ==
    Cardinality({ij \in MentionsOfRun :
                    MentionAt(ij).EntityType = ty /\ MentionAt(ij).Sentiment = sv})

\* 8 * count times the mean sentiment value of the mentions of type ty, the
\* mean being 3 when there are none, and the count taken as 1 then
SentimentTotal(ty) ==
    LET cnt == MentionsFeeling(ty, "positive") + MentionsFeeling(ty, "neutral")
                 + MentionsFeeling(ty, "negative")
    IN  IF cnt = 0 THEN [sum |-> 3, cnt |-> 1]
        ELSE [sum |-> 5 * MentionsFeeling(ty, "positive")
                        + 3 * MentionsFeeling(ty, "neutral")
                        + MentionsFeeling(ty, "negative"),
              cnt |-> cnt]

PriorScores ==
    IF stage = "calculated"
    THEN SubSeq(trends, 1, Len(trends) - 1)
    ELSE trends

\* the positions in PriorScores of the 7 most recent snapshots
Recent == {i \in 1..Len(PriorScores) : i > Len(PriorScores) - 7}

RECURSIVE SumOver(_, _)
SumOver(I, f) ==
    IF I = {} THEN <<0, 1>>
    ELSE LET i == CHOOSE j \in I : TRUE
         IN  RAdd(f[i], SumOver(I \ {i}, f))

\* the confidence of the emitted snapshot is the estimate over Recent: with
\* fewer than 3 snapshots (0.5, medium); with mean score 0 (0, low); otherwise
\* 1 - stdDev / mean clamped to [0, 1], high when at least 0.8, low when below
\* 0.5, medium otherwise.  With q the population variance over mean squared,
\* a score c is held as the q with (1 - c)^2 = q: 0.5 is 1/4, 0 is q >= 1,
\* c >= 0.8 is q <= 1/25.
EstimateOverRecent ==
    LET n == Cardinality(Recent)
        sum == SumOver(Recent, PriorScores)
        squares == SumOver(Recent, [i \in Recent |->
                                       RMul(PriorScores[i], PriorScores[i])])
        \* n^2 * variance and n^2 * mean^2
        nnvar == RSub(RMul(<<n, 1>>, squares), RMul(sum, sum))
        nnmean2 == RMul(sum, sum)
        gap == snapshot[1].ConfidenceGapSq
        lvl == snapshot[1].ConfidenceLevel
    IN  IF n < 3 THEN gap = <<1, 4>> /\ lvl = "medium"
        ELSE IF sum[1] = 0 THEN gap = <<1, 1>> /\ lvl = "low"
        ELSE /\ IF RLess(nnmean2, nnvar) THEN gap = <<1, 1>>
                ELSE gap[1] * nnmean2[1] * nnvar[2] = nnvar[1] * nnmean2[2] * gap[2]
             /\ lvl = IF ~RLess(nnmean2, RMul(<<25, 1>>, nnvar)) THEN "high"
                      ELSE IF RLess(nnmean2, RMul(<<4, 1>>, nnvar)) THEN "low"
                      ELSE "medium"

RuneBefore(t, pos) ==
    IF t[pos] \in 128..191 THEN RuneAt(t, pos - 1) ELSE t[pos]

\* the match of length bytes at byte offset pos touches no letter and no digit
AtWordBoundaries(t, pos, length) ==
    /\ pos > 0 => ~ (IsLetter(RuneBefore(t, pos)) \/ IsDigit(RuneBefore(t, pos)))
    /\ pos + length < Len(t) =>
          ~ (IsLetter(RuneAt(t, pos + length + 1)) \/ IsDigit(RuneAt(t, pos + length + 1)))

\* C17: every mention the scan returns lies where the matched substring is
\* neither immediately preceded nor immediately followed by a letter or a
\* digit, for all texts and all entity names.
C17_NoPartialWordMatch ==
    stage = "detected" =>
        \A i \in 1..Len(mentions) :
            AtWordBoundaries(text, mentions[i].Position, Len(mentions[i].EntityName))

\* the candidates of DetectMentions: the brand name, the aliases, the competitors
Candidates(b) ==
    << [name |-> b.Name, type |-> "brand"] >>
    \o [i \in 1..Len(b.Aliases) |-> [name |-> b.Aliases[i], type |-> "brand"]]
    \o [i \in 1..Len(b.Competitors) |-> [name |-> b.Competitors[i], type |-> "competitor"]]

\* the offsets at which a name occurs in the text, letter case aside, between
\* word boundaries
BoundaryOccurrences(t, name) ==
    {pos \in Occurrences(ToLower(t), ToLower(name)) : AtWordBoundaries(t, pos, Len(name))}

\* C18: for every candidate and every offset at which it occurs,
\* case-insensitively and between word boundaries, DetectMentions returns a
\* mention with that candidate and that offset, one for each time the
\* candidate is listed: nothing is deduplicated.
C18_EveryOccurrenceMentioned ==
    stage = "detected" =>
        LET cands == Candidates(profile)
        IN  \A c \in 1..Len(cands) :
                \A pos \in BoundaryOccurrences(text, cands[c].name) :
                    Cardinality({i \in 1..Len(mentions) :
                                    /\ mentions[i].EntityName = cands[c].name
                                    /\ mentions[i].EntityType = cands[c].type
                                    /\ mentions[i].Position = pos})
                    = Cardinality({d \in 1..Len(cands) : cands[d] = cands[c]})

\* the hits of the words of a list in a lowercase snippet: <<word, offset>>
Hits(words, lowerContext) ==
    UNION {{<<i, q>> : q \in Occurrences(lowerContext, words[i])} :
              i \in 1..Len(words)}

\* a negation word lies within the 30 bytes that precede offset q
NegatedAt(lowerContext, q) ==
    \E i \in 1..Len(negationWords) :
        Contains(Slice(lowerContext, Max(0, q - NegationWindow), q), negationWords[i])

\* the hits of a list that are negated, or not
HitCount(words, lowerContext, negated) ==
    Cardinality({h \in Hits(words, lowerContext) :
                    NegatedAt(lowerContext, h[2]) = negated})

\* the sentiment when every hit counts, each with its own negation
SentimentOfHits(context) ==
    LET lowerContext == ToLower(context)
        positiveCount == HitCount(positiveWords, lowerContext, FALSE)
                         + HitCount(negativeWords, lowerContext, TRUE)
        negativeCount == HitCount(positiveWords, lowerContext, TRUE)
                         + HitCount(negativeWords, lowerContext, FALSE)
    IN  IF positiveCount > negativeCount THEN "positive"
        ELSE IF negativeCount > positiveCount THEN "negative"
        ELSE "neutral"

\* C19: the sentiment of a snippet is that of its lexicon hits: every hit
\* counts once for its own polarity, or for the opposite one when a negation
\* word occurs within the 30 characters before that hit; positive when the
\* positive count is larger, negative when the negative count is larger,
\* neutral otherwise ("not the best" alone is negative).
C19_SentimentOfEveryHit ==
    stage = "classified" => sentiment = SentimentOfHits(text)

\* the mention of a name among the ranked mentions has these properties
ScenarioMention(name, type, feeling) ==
    \E i \in 1..Len(mentions) :
        /\ mentions[i].EntityName = name
        /\ mentions[i].EntityType = type
        /\ mentions[i].Sentiment = feeling

\* C20: for the brand Acme with competitor Globex and the one response "I
\* recommend Acme because it's the best choice, unlike Globex which has
\* issues.", the mentions are Acme (brand, positive, rank 1, recommended) and
\* Globex (competitor, negative), and the snapshot of the run has the four
\* components 1.0 and the visibility score 100.
C20_Scenario ==
    (text = Scenario /\ profile = Acme) =>
        /\ stage \in {"ranked", "stored", "calculated"} =>
              /\ Len(mentions) = 2
              /\ ScenarioMention(Bytes("Acme"), "brand", "positive")
              /\ ScenarioMention(Bytes("Globex"), "competitor", "negative")
              /\ \A i \in 1..Len(mentions) :
                    mentions[i].EntityType = "brand" =>
                        mentions[i].PositionRank = 1 /\ mentions[i].IsRecommendation
        /\ (stage = "calculated" /\ run = << [err |-> FALSE, mentions |-> mentions] >>) =>
              /\ snapshot[1].NormalizedMentionRate = ROne
              /\ snapshot[1].WeightedPositionScore = ROne
              /\ snapshot[1].RecommendationRate = ROne
              /\ snapshot[1].RelativeSentimentIndex = ROne
              /\ snapshot[1].VisibilityScore = Rat(100, 1)

\* the brand mentions among the ranked mentions
BrandMentions == {i \in 1..Len(mentions) : mentions[i].EntityType = "brand"}

PhraseAt(q) ==
    \E i \in 1..Len(recommendationPatterns) :
        q \in Occurrences(ToLower(text), recommendationPatterns[i])

C24_WaitIsSufficient ==
    [][\A p \in Procs :
         (pc[p] = "idle" /\ pc'[p] = "limited")
         => LET d == TimeUntilNextAllowed(rl', now)
            IN  d > 0 /\ CanProceed(rl', now + d)]_vars

\* C29: in every reachable state of the rate limiter the can_proceed value of
\* GetStatus equals what CanProceed would return at the same instant.
C29_StatusAgreesWithCanProceed ==
    GetStatus(rl, now) = CanProceed(rl, now)

\* C23: a RunAnalysis call whose TryAcquire returned false returns
\* ErrRequestInFlight and has no side effect: no Query, no RecordCall, no
\* stored response deleted or written, no metrics calculated, no Release; the
\* entry of the active run stays, and the brand is still reported in flight.
C23_RejectedCallHasNoEffect ==
    [][\A p \in Procs :
         /\ (pc[p] = "tryacquire" /\ pc'[p] # "tryacquire"
                /\ ~ TryAcquireOk(inFlight, brand[p], now))
            => /\ pc'[p] = "done" /\ ret'[p] = "ErrRequestInFlight"
               /\ inFlight' = inFlight /\ rl' = rl /\ window' = window
               /\ responses' = responses
               /\ queried' = queried /\ calcCount' = calcCount
               /\ relCount' = relCount
               /\ IsInFlight(inFlight', brand[p], now')
         /\ (pc[p] = "done" /\ ret[p] = "ErrRequestInFlight")
            => /\ pc'[p] = "done"
               /\ queried'[p] = {} /\ calcCount'[p] = 0 /\ relCount'[p] = 0
               /\ responsesRun'[p] = 0 /\ ~ acquired'[p]]_vars

\* a call was rejected while the active run waits for a provider, its stored
\* response and its entry in place
C23_Witness ==
    \E p, q \in Procs :
        /\ pc[q] = "done" /\ ret[q] = "ErrRequestInFlight"
        /\ brand[p] = brand[q]
        /\ pc[p] = "query" /\ responsesRun[p] = 1
        /\ IsInFlight(inFlight, brand[p], now)
        /\ inFlight[brand[p]] = acqTime[p]

\* C25: Release removes the entry of the brand whichever acquisition inserted
\* it: after the Release of any call the brand has no entry, IsInFlight is
\* false and a TryAcquire for the brand would succeed, also while a run that
\* re-acquired the stale slot is still executing.
C25_ReleaseRemovesAnyEntry ==
    [][\A p \in Procs :
         (pc[p] = "release" /\ pc'[p] = "done")
         => /\ brand[p] \notin DOMAIN inFlight'
            /\ ~ IsInFlight(inFlight', brand[p], now')
            /\ TryAcquireOk(inFlight', brand[p], now')]_vars

\* run q re-acquired the stale slot of run p and is still executing; p has
\* released, the brand has no entry and a further TryAcquire would succeed
C25_Witness ==
    \E p, q \in Procs :
        /\ p # q /\ brand[p] = brand[q]
        /\ pc[p] = "done" /\ acquired[p] /\ relCount[p] = 1
        /\ q \in Holders(brand[q]) /\ pc[q] \in {"loop", "record", "query", "store"}
        /\ acqTime[q] >= acqTime[p] + Timeout
        /\ brand[q] \notin DOMAIN inFlight
        /\ ~ IsInFlight(inFlight, brand[q], now)
        /\ TryAcquireOk(inFlight, brand[q], now)

C28_LoopEndsAtFirstRejection ==
    [][/\ \A p \in Procs :
            /\ nPrompts'[p] <= maxPrompts /\ queried'[p] \subseteq 1..maxPrompts
            /\ (pc[p] = "loop" /\ pc'[p] # "loop" /\ idx[p] <= nPrompts[p]
                   /\ ~ CanProceed(rl, now))
               => /\ pc'[p] = "calc" /\ rlStop'[p]
                  /\ errors'[p] = errors[p] + 1
                  /\ queried'[p] = queried[p] /\ window' = window
                  /\ \A i \in queried[p] : i < idx[p]
            /\ rlStop[p]
               => /\ rlStop'[p] /\ pc'[p] \in {"calc", "release", "done"}
                  /\ queried'[p] = queried[p] /\ idx'[p] = idx[p]
                  /\ errors'[p] # errors[p] => pc[p] = "calc"
            /\ (pc'[p] = "query" /\ pc[p] # "query")
               => /\ pc[p] = "record" /\ rl' = RecordCall(rl, now)
                  /\ window'[0] = window[0] + 1
                  /\ idx[p] \notin queried[p]
                  /\ queried'[p] = queried[p] \cup {idx[p]}
            /\ (pc[p] = "query" /\ pc'[p] # "query")
               => /\ rl' = rl /\ window' = window
                  /\ idx[p] \in queried[p]
       /\ (now' = now /\ window' # window) => \E p \in Procs : pc[p] = "record"
       /\ now' < Minute
          => rl'.callsThisMin = Cardinality(queried'[Runner])]_vars

\* maxPrompts prompts are to be processed, at least three were queried, one of
\* them failed, and the loop ended on a rejection of the limiter
C28_Witness ==
    /\ pc[Runner] = "done" /\ ret[Runner] = "result"
    /\ nPrompts[Runner] = maxPrompts /\ rlStop[Runner] /\ qfail[Runner]
    /\ Cardinality(queried[Runner]) >= 3
    /\ queried[Runner] = 1..Cardinality(queried[Runner])

\* C30: at every moment of a RunComparison SuccessCalls + len(Errors) is
\* len(Results) and no (prompt, model) pair has two entries; in the result it
\* returns len(Results) = TotalCalls = (prompts after the cap at maxPrompts)
\* * (models) and every pair has exactly one entry, whatever the order in
\* which the goroutines appended.
C30_OneEntryPerPair ==
    \A p \in Procs :
        /\ nPrompts[p] <= maxPrompts
        /\ successCalls[p] + errors[p] = Len(results[p])
        /\ successCalls[p] = Cardinality({n \in DOMAIN results[p] : results[p][n].ok})
        /\ \A m, n \in DOMAIN results[p] :
              (results[p][m].prompt = results[p][n].prompt
                  /\ results[p][m].model = results[p][n].model) => m = n
        /\ ret[p] = "result"
           => /\ Len(results[p]) = TotalCalls(p)
              /\ \A i \in 1..nPrompts[p], j \in 1..Len(modelIDs[p]) :
                    \E n \in DOMAIN results[p] :
                        results[p][n].prompt = i /\ results[p][n].model = j

\* a comparison of maxPrompts prompts with two models has returned; some
\* calls succeeded, some failed, and for some prompt the second model's
\* goroutine appended before the first's
C30_Witness ==
    /\ ret[Runner] = "result"
    /\ nPrompts[Runner] = maxPrompts /\ Len(modelIDs[Runner]) = 2
    /\ Len(results[Runner]) = 2 * maxPrompts
    /\ successCalls[Runner] >= 1 /\ errors[Runner] >= 1
    /\ \E n \in 1..(Len(results[Runner]) - 1) :
          /\ results[Runner][n].prompt = results[Runner][n + 1].prompt
          /\ results[Runner][n].model = 2 /\ results[Runner][n + 1].model = 1

\* C26: findEntityMentions terminates for every text and every name, the
\* empty name included: the loop reaches its break.
C26_ScanTerminates == <>(stage = "scanned")

====
